---- MODULE Spec2Model ----
(***************************************************************************)
(* Verification model of the slide automation script                       *)
(* (src/unnamed/part_000, the same functions appear in src/main.js).       *)
(*                                                                         *)
(* Texts are sequences of characters (one-character strings).  Every       *)
(* regular expression of the script is written down as data (a sequence of *)
(* alternatives, each a sequence of quantified character classes) and is   *)
(* run by one backtracking matcher that follows the JavaScript priority    *)
(* rules (leftmost start, greedy = longest first, lazy = shortest first).  *)
(***************************************************************************)
EXTENDS Integers, Sequences, FiniteSets, TLC

(***************************************************************************)
(* Characters and character classes                                        *)
(***************************************************************************)
LowerLetters == <<"a","b","c","d","e","f","g","h","i","j","k","l","m",
                  "n","o","p","q","r","s","t","u","v","w","x","y","z">>

UpperLetters == <<"A","B","C","D","E","F","G","H","I","J","K","L","M",
                  "N","O","P","Q","R","S","T","U","V","W","X","Y","Z">>

DigitChars == <<"0","1","2","3","4","5","6","7","8","9">>

Range(f) == {f[i] : i \in DOMAIN f}

\* a class is a set of characters, possibly negated
In(set) == [neg |-> FALSE, set |-> set]

NotIn(set) == [neg |-> TRUE, set |-> set]

Member(c, cls) == (c \in cls.set) # cls.neg

\* \s of the regular expressions, and what String.prototype.trim strips
WhiteSpace == {" ", "\n", "\t", "\r"}

ClsSpace == In(WhiteSpace)

ClsDigit == In(Range(DigitChars))

ClsAlpha == In(Range(LowerLetters) \cup Range(UpperLetters))

ClsAny == NotIn({})

\* the two cases of a character, for the i flag
BothCases(c) ==
    IF \E k \in DOMAIN LowerLetters : c \in {LowerLetters[k], UpperLetters[k]}
    THEN LET k == CHOOSE j \in DOMAIN LowerLetters :
                      c \in {LowerLetters[j], UpperLetters[j]}
         IN {LowerLetters[k], UpperLetters[k]}
    ELSE {c}

toLowerCase(s) ==
    [i \in DOMAIN s |->
        IF \E k \in DOMAIN UpperLetters : s[i] = UpperLetters[k]
        THEN LowerLetters[CHOOSE k \in DOMAIN UpperLetters : s[i] = UpperLetters[k]]
        ELSE s[i]]

(***************************************************************************)
(* Regular expressions as data                                             *)
(*   item kinds: "one" c, "lit" abc, "star" c*, "plus" c+, "opt" c?,       *)
(*               "lazy" c*?, "bol" ^, "eol" $                              *)
(***************************************************************************)
One(cls)  == [kind |-> "one",  cls |-> cls]

Star(cls) == [kind |-> "star", cls |-> cls]

Plus(cls) == [kind |-> "plus", cls |-> cls]

Opt(cls)  == [kind |-> "opt",  cls |-> cls]

Lazy(cls) == [kind |-> "lazy", cls |-> cls]

Bol == [kind |-> "bol", cls |-> ClsAny]

Eol == [kind |-> "eol", cls |-> ClsAny]

\* a literal string, case-sensitive and case-insensitive: one item whose
\* cls is the sequence of the classes of its characters
Lit(str) == << [kind |-> "lit", cls |-> [i \in DOMAIN str |-> In({str[i]})]] >>

LitI(str) ==
    << [kind |-> "lit", cls |-> [i \in DOMAIN str |-> In(BothCases(str[i]))]] >>

\* least and greatest element of a non-empty set of integers
Min(set) == CHOOSE x \in set : \A y \in set : x <= y

Max(set) == 0 - Min({0 - x : x \in set})

\* length of the longest run of characters of cls in s starting at pos
RunLen(s, pos, cls) ==
    CHOOSE n \in 0..(Len(s) + 1 - pos) :
        /\ pos + n = Len(s) + 1 \/ ~Member(s[pos + n], cls)
        /\ \A e \in 0..(n - 1) : Member(s[pos + e], cls)

\* length of the longest run of characters of cls in s ending before pos
BackRunLen(s, pos, cls) ==
    CHOOSE n \in 0..(pos - 1) :
        /\ n = pos - 1 \/ ~Member(s[pos - 1 - n], cls)
        /\ \A e \in 0..(n - 1) : Member(s[pos - 1 - e], cls)

\* the literal item it stands in s at positions from..(from + Len(it.cls) - 1)
LitAt(it, s, from) ==
    /\ from >= 1
    /\ from + Len(it.cls) - 1 <= Len(s)
    /\ \A i \in DOMAIN it.cls : Member(s[from + i - 1], it.cls[i])

\* the numbers of characters the item it can take at position pos of s
Counts(it, s, pos) ==
    CASE it.kind = "one"  ->
             IF pos <= Len(s) /\ Member(s[pos], it.cls) THEN {1} ELSE {}
      [] it.kind = "lit"  -> IF LitAt(it, s, pos) THEN {Len(it.cls)} ELSE {}
      [] it.kind = "star" -> 0..RunLen(s, pos, it.cls)
      [] it.kind = "plus" -> 1..RunLen(s, pos, it.cls)
      [] it.kind = "opt"  ->
             IF pos <= Len(s) /\ Member(s[pos], it.cls) THEN {0, 1} ELSE {0}
      [] it.kind = "lazy" -> 0..RunLen(s, pos, it.cls)
      [] it.kind = "bol"  -> IF pos = 1 THEN {0} ELSE {}
      [] it.kind = "eol"  -> IF pos = Len(s) + 1 THEN {0} ELSE {}

\* the positions from which the item it can reach position pos of s
Before(it, s, pos) ==
    CASE it.kind = "one"  ->
             IF pos >= 2 /\ Member(s[pos - 1], it.cls) THEN {pos - 1} ELSE {}
      [] it.kind = "lit"  ->
             IF LitAt(it, s, pos - Len(it.cls)) THEN {pos - Len(it.cls)} ELSE {}
      [] it.kind = "star" -> (pos - BackRunLen(s, pos, it.cls))..pos
      [] it.kind = "plus" -> (pos - BackRunLen(s, pos, it.cls))..(pos - 1)
      [] it.kind = "opt"  ->
             IF pos >= 2 /\ Member(s[pos - 1], it.cls) THEN {pos - 1, pos}
             ELSE {pos}
      [] it.kind = "lazy" -> (pos - BackRunLen(s, pos, it.cls))..pos
      [] it.kind = "bol"  -> IF pos = 1 THEN {pos} ELSE {}
      [] it.kind = "eol"  -> IF pos = Len(s) + 1 THEN {pos} ELSE {}

\* the positions from which the item it can reach a position of target
BeforeAll(it, s, target) == UNION {Before(it, s, q) : q \in target}

\* CanRev(alt, s, lo, hi, target): for the items hi, hi-1, ..., lo of the
\* alternative alt, in this order, the set of positions of s from which the
\* items from that one through hi can reach a position of target (the two
\* halves of lo..hi are taken one after the other, the later items first)
RECURSIVE CanRev(_, _, _, _, _)
CanRev(alt, s, lo, hi, target) ==
    IF lo > hi THEN <<>>
    ELSE IF lo = hi THEN << BeforeAll(alt[lo], s, target) >>
    ELSE LET mid   == (lo + hi) \div 2
             later == CanRev(alt, s, mid + 1, hi, target)
         IN later \o CanRev(alt, s, lo, mid, later[Len(later)])

\* the table of alt on s: the set of all positions (where a match may end)
\* followed by CanRev for all the items
ReCan(alt, s) ==
    << 1..(Len(s) + 1) >> \o CanRev(alt, s, 1, Len(alt), 1..(Len(s) + 1))

\* the positions from which the items k, k+1, ... of alt can match
CanFrom(can, alt, k) == can[Len(alt) + 2 - k]

\* ReFrom(alt, s, can, lo, hi, pos): the match a backtracking matcher finds
\* for the items lo..hi of alt at position pos, as the sequence of the
\* positions after item lo, ..., hi: every item takes the first count, in its
\* order of preference (greedy items the longest first, lazy items the
\* shortest first), that lets the rest of alt match; can = ReCan(alt, s)
RECURSIVE ReFrom(_, _, _, _, _, _)
ReFrom(alt, s, can, lo, hi, pos) ==
    IF lo > hi THEN <<>>
    ELSE IF lo = hi
    THEN LET ok == {n \in Counts(alt[lo], s, pos) :
                       pos + n \in CanFrom(can, alt, lo + 1)}
         IN << pos + (IF alt[lo].kind = "lazy" THEN Min(ok) ELSE Max(ok)) >>
    ELSE LET mid   == (lo + hi) \div 2
             first == ReFrom(alt, s, can, lo, mid, pos)
         IN first \o ReFrom(alt, s, can, mid + 1, hi, first[Len(first)])

\* the tables of the alternatives a, a+1, ... of re on s
RECURSIVE ReCansFrom(_, _, _)
ReCansFrom(re, s, a) ==
    IF a > Len(re) THEN <<>>
    ELSE <<ReCan(re[a], s)>> \o ReCansFrom(re, s, a + 1)

ReCans(re, s) == ReCansFrom(re, s, 1)

\* first alternative of re that matches at pos: [alt, at] or [alt |-> 0];
\* at holds the positions before the first item and after every item
ReAltAt(re, s, cans, pos) ==
    LET alts == {a \in DOMAIN re : pos \in CanFrom(cans[a], re[a], 1)}
    IN IF alts = {} THEN [alt |-> 0, at |-> <<>>]
       ELSE [alt |-> Min(alts),
             at  |-> <<pos>> \o ReFrom(re[Min(alts)], s, cans[Min(alts)],
                                       1, Len(re[Min(alts)]), pos)]

ReMatchAt(re, s, pos) == ReAltAt(re, s, ReCans(re, s), pos)

MatchEnd(m) == m.at[Len(m.at)]

\* the positions of s from pos on at which re matches
MatchStarts(re, s, cans, pos) ==
    {p \in pos..(Len(s) + 1) :
        \E a \in DOMAIN re : p \in CanFrom(cans[a], re[a], 1)}

\* the leftmost match of re in s from pos on, [alt |-> 0] if none
ReFirstFrom(re, s, cans, pos) ==
    LET starts == MatchStarts(re, s, cans, pos)
    IN IF starts = {} THEN [alt |-> 0, at |-> <<>>]
       ELSE ReAltAt(re, s, cans, Min(starts))

\* s.match(/re/) without the g flag
ReFirstMatch(re, s) ==
    IF Len(s) = 0 THEN ReFirstFrom(re, <<>>, ReCans(re, <<>>), 1)
    ELSE ReFirstFrom(re, s, ReCans(re, s), 1)

\* where the search goes on after the match m (lastIndex, moved by one after
\* an empty match)
NextSearch(m) == IF MatchEnd(m) > m.at[1] THEN MatchEnd(m) ELSE m.at[1] + 1

\* the first count (or fewer, when there are no more) successive
\* non-overlapping matches of re in s from pos on
RECURSIVE ReMatchesUpTo(_, _, _, _, _)
ReMatchesUpTo(re, s, cans, pos, count) ==
    IF count <= 0 THEN <<>>
    ELSE IF count = 1
    THEN LET m == ReFirstFrom(re, s, cans, pos)
         IN IF m.alt = 0 THEN <<>> ELSE <<m>>
    ELSE LET half  == count \div 2
             first == ReMatchesUpTo(re, s, cans, pos, half)
         IN IF Len(first) < half THEN first
            ELSE first \o ReMatchesUpTo(re, s, cans, NextSearch(first[half]),
                                        count - half)

\* the successive non-overlapping matches of re in s from pos on (g flag):
\* there are no more of them than positions at which re matches
ReMatches(re, s, pos) ==
    IF pos > Len(s) + 1 THEN <<>>
    ELSE LET cans == ReCans(re, s)
         IN ReMatchesUpTo(re, s, cans, pos,
                          Cardinality(MatchStarts(re, s, cans, pos)))

\* RegExp.prototype.test
ReTest(re, s) == ReFirstMatch(re, s).alt # 0

\* the replacement of the matches lo..hi of ms, each followed by the text of
\* s between it and the next match (or the end of s)
RECURSIVE SpliceRange(_, _, _, _, _)
SpliceRange(s, ms, reps, lo, hi) ==
    IF lo > hi THEN <<>>
    ELSE IF lo = hi
    THEN reps[lo] \o SubSeq(s, MatchEnd(ms[lo]),
                            IF lo = Len(ms) THEN Len(s) ELSE ms[lo + 1].at[1] - 1)
    ELSE SpliceRange(s, ms, reps, lo, (lo + hi) \div 2)
           \o SpliceRange(s, ms, reps, (lo + hi) \div 2 + 1, hi)

\* s with the matches ms replaced by the texts reps (one per match)
Splice(s, ms, reps) ==
    IF Len(ms) = 0 THEN s
    ELSE SubSeq(s, 1, ms[1].at[1] - 1) \o SpliceRange(s, ms, reps, 1, Len(ms))

\* s.replace(/re/g, rep) with a constant replacement text
ReplaceAll(re, s, rep) ==
    LET ms == ReMatches(re, s, 1)
    IN Splice(s, ms, [j \in DOMAIN ms |-> rep])

\* s.replace(/re/, rep) and s.replace("literal", rep): first match only
ReplaceFirst(re, s, rep) ==
    LET m == ReFirstMatch(re, s)
    IN IF m.alt = 0 THEN s ELSE Splice(s, <<m>>, <<rep>>)

\* the text matched by items from..to-1 of a match (a capture group)
Group(s, m, from, to) == SubSeq(s, m.at[from], m.at[to] - 1)

\* String.prototype.includes
Includes(s, sub) == \E i \in 1..(Len(s) - Len(sub) + 1) :
                        SubSeq(s, i, i + Len(sub) - 1) = sub

\* the text made of the pieces in order
RECURSIVE Flatten(_)
Flatten(pieces) ==
    IF pieces = <<>> THEN <<>> ELSE Head(pieces) \o Flatten(Tail(pieces))

\* String.prototype.trim
ReTrimEnds == << <<Bol, Plus(ClsSpace)>>, <<Plus(ClsSpace), Eol>> >>

trim(s) == ReplaceAll(ReTrimEnds, s, <<>>)

(***************************************************************************)
(* Configuration (CONFIG)                                                  *)
(***************************************************************************)
MIN_FONT_SIZE == 50

DEFAULT_FONT_SIZE == 60

LINE_SPACING == 2

(***************************************************************************)
(* Bounds of the model                                                     *)
(***************************************************************************)
\* longest text handed to adjustFontSizeToFitShape in the autofit runs
MaxTextLen == 3

\* largest shape height (points) in the autofit runs
MaxHeight == 250

\* most verses of one hymn
MaxVerses == 2

\* height (points) of the text shape of the lyrics template slides
LyricsHeight == 220

\* most pieces the decoder's input is put together from
MaxPieces == 3

\* most pieces of a scripture page after the tag that opens the passage
MaxScrPieces == 3

\* most platform calls that throw in one run of createPresentation
MaxFailures == 1

(***************************************************************************)
(* State                                                                   *)
(***************************************************************************)
VARIABLES
    shapeText,      \* autofit: text of the shape (textRange)
    shapeHeight,    \* autofit: shape.getHeight()
    shapeFont,      \* autofit: font size set on the shape, 0 = never set
    fitPc,          \* autofit: "idle", "loop" (in the while loop), "done"
    fitText,        \* autofit: local cleanedText
    fontSize,       \* autofit: local fontSize
    decrements,     \* autofit: iterations of the while loop in this call
    prevFit,        \* autofit: line count and size of the previous call
    hymnDetails,    \* expansion: [opening, closing] -> [verses, refrain]
    lyricsHeight,   \* expansion: height of the text shape of a lyrics slide
    slides,         \* expansion: the slides of the presentation, in order
    pc,             \* expansion: position in createPresentation
    stage,          \* expansion: position in createSlidesForHymn
    slidesToCreate, \* expansion: local slidesToCreate of createSlidesForHymn
    interleaved,    \* expansion: per hymn, slidesToCreate after the forEach
    blocks,         \* expansion: per hymn, slidesToCreate before reverse()
    dupCalls,       \* expansion: per hymn, calls of templateSlide.duplicate()
    failures,       \* expansion: platform calls that threw so far
    scriptureContent, \* expansion: argument scriptureContent of createPresentation
    completed,      \* expansion: the calls of createPresentation that returned
    decInput,       \* decoder: the pieces of the text handed to the decoder
    decOut,         \* decoder: results of decoding it once, twice
    scrInput,       \* scripture: the pieces of the fetched page (htmlContent)
    scrPc,          \* scripture: position in extractScriptureText
    textContent,    \* scripture: local textContent
    verseNumbers,   \* scripture: local verseNumbers
    replaced,       \* scripture: replace calls of lines 664-676 done so far
    scrOut,         \* scripture: what extractScriptureText returned, if it has
    hvInput,        \* hymn page: the pieces of the fetched page (html)
    hvPc,           \* hymn page: position in extractHymnVerses
    pTags,          \* hymn page: the elements of pTags not yet visited
    hymnVerses,     \* hymn page: local verses
    hymnRefrain,    \* hymn page: local refrain
    hymnResult,     \* hymn page: what fetchHymnDetails gives for this hymn
    hymnSlides,     \* hymn page: slidesToCreate of createSlidesForHymn
    mailLines,      \* e-mail: number of lines of the most recent message
    mailText,       \* e-mail: the text of the message's body
    mailHtml,       \* e-mail: whether getBody() gives that text (else only
                    \*         getPlainBody() does)
    mailPc,         \* e-mail: position in searchGmailForPraiseLyrics
    emailBody,      \* e-mail: local emailBody
    mailOut,        \* e-mail: the entity returned, if one was
    runPc,          \* run: position in createHymnsSlides
    hymnsData,      \* run: what extractHymnsData gave
    hymnLookups,    \* run: how the two hymn page fetches ended
    verseIndex,     \* run: scripture references fetched so far
    fetched,        \* run: how each scripture fetch ended
    responses,      \* run: local responses of fetchScriptureContent
    netLog,         \* run: the fetch and sleep calls of fetchScriptureContent
    mailOutcome,    \* run: how the e-mail search ended
    presented,      \* run: the arguments of each createPresentation call
    templateMarkers,\* run: the anchor markers found on the template's slides
    driveFiles,     \* run: the documents the run has left in the drive
    praiseRev,      \* praise song: the revision of updatePraiseSongSlides run
    praisePc,       \* praise song: position in updatePraiseSongSlides
    praiseInput,    \* praise song: praiseData (<<>> for null)
    deck,           \* praise song: the slides of the presentation, in order
    templateSlide,  \* praise song: id of local templateSlide, 0 for null
    created,        \* praise song: ids of duplicatedSlides, allSlides or
                    \*              createdSlides
    praiseI,        \* praise song: loop variable i (index)
    today,          \* date: the current day, new Date()
    datePc,         \* date: position in getUpcomingSaturday
    upcomingSaturday \* date: the date getUpcomingSaturday returns

fitVars == <<shapeText, shapeHeight, shapeFont, fitPc, fitText, fontSize,
             decrements, prevFit>>

expVars == <<hymnDetails, lyricsHeight, slides, pc, stage, slidesToCreate,
             interleaved, blocks, dupCalls, failures, scriptureContent,
             completed>>

decVars == <<decInput, decOut>>

scrVars == <<scrInput, scrPc, textContent, verseNumbers, replaced, scrOut>>

versesVars == <<hvInput, hvPc, pTags, hymnVerses, hymnRefrain,
               hymnResult, hymnSlides>>

\* the variables of the parts added after the first four
mailVars == <<mailLines, mailText, mailHtml, mailPc, emailBody, mailOut>>

runVars == <<runPc, hymnsData, hymnLookups, verseIndex, fetched, responses,
             netLog, mailOutcome, presented, templateMarkers, driveFiles>>

praiseVars == <<praiseRev, praisePc, praiseInput, deck, templateSlide, created,
                praiseI>>

dateVars == <<today, datePc, upcomingSaturday>>

restVars == <<versesVars, mailVars, runVars, praiseVars, dateVars>>

oldVars == <<fitVars, expVars, decVars, scrVars>>

vars == <<oldVars, restVars>>

(***************************************************************************)
(* Autofit: adjustFontSizeToFitShape, calculateTextHeight                  *)
(***************************************************************************)
\* /\n\s*\n/g
ReBlankLines == << Lit(<<"\n">>) \o <<Star(ClsSpace)>> \o Lit(<<"\n">>) >>

\* text.replace(/\n\s*\n/g, '\n').replace(/^\s+|\s+$/g, '').trim()
CleanText(text) ==
    trim(ReplaceAll(ReTrimEnds, ReplaceAll(ReBlankLines, text, <<"\n">>), <<>>))

\* (text.match(/\n/g) || []).length + 1
NumLines(text) == Cardinality({i \in DOMAIN text : text[i] = "\n"}) + 1

\* calculateTextHeight without the line spacing factor
HeightWithoutSpacing(text, size) == size * NumLines(text)

calculateTextHeight(text, size) == size * LINE_SPACING * NumLines(text)

\* the loop condition with the minimum itself still decremented
FitLoopCondBelowMin(text, size, height) ==
    calculateTextHeight(text, size) > height /\ size >= MIN_FONT_SIZE

\* the loop condition with the comparison of the heights turned round
FitLoopCondReversed(text, size, height) ==
    calculateTextHeight(text, size) < height /\ size > MIN_FONT_SIZE

\* the condition of the while loop
FitLoopCond(text, size, height) ==
    calculateTextHeight(text, size) > height /\ size > MIN_FONT_SIZE

\* the value of fontSize when the while loop ends
RECURSIVE FitLoop(_, _, _)
FitLoop(text, size, height) ==
    IF FitLoopCond(text, size, height) THEN FitLoop(text, size - 1, height)
    ELSE size

\* the font size adjustFontSizeToFitShape sets for a text and a height
AutofitSize(text, height) == FitLoop(CleanText(text), DEFAULT_FONT_SIZE, height)

FitAlphabet == {"w", " ", "\n"}

RECURSIVE Texts(_, _)
Texts(alphabet, n) ==
    IF n = 0 THEN {<<>>}
    ELSE LET shorter == Texts(alphabet, n - 1)
         IN shorter \cup {Append(t, c) : t \in shorter, c \in alphabet}

FitTexts == Texts(FitAlphabet, MaxTextLen)

NoFit == [lines |-> 0, size |-> 0]

\* the autofit variables when no autofit run is modelled
FitIdle ==
    /\ shapeText = <<>>
    /\ shapeHeight = 0
    /\ shapeFont = 0
    /\ fitPc = "off"
    /\ fitText = <<>>
    /\ fontSize = 0
    /\ decrements = 0
    /\ prevFit = NoFit

\* the expansion variables when no run of createPresentation is modelled
ExpIdle ==
    /\ hymnDetails = <<>>
    /\ lyricsHeight = 0
    /\ slides = <<>>
    /\ pc = "off"
    /\ stage = "off"
    /\ slidesToCreate = <<>>
    /\ interleaved = <<>>
    /\ blocks = <<>>
    /\ dupCalls = <<>>
    /\ failures = 0
    /\ scriptureContent = <<>>
    /\ completed = <<>>

\* the decoder variables when no decoding is modelled
DecIdle ==
    /\ decInput = <<>>
    /\ decOut = <<"off">>

\* the scripture variables when no extraction is modelled
ScrIdle ==
    /\ scrInput = <<>>
    /\ scrPc = "off"
    /\ textContent = <<>>
    /\ verseNumbers = <<>>
    /\ replaced = 0
    /\ scrOut = <<"off">>

\* the hymn page variables when no run of extractHymnVerses is modelled
VersesIdle ==
    /\ hvInput = <<>>
    /\ hvPc = "off"
    /\ pTags = <<>>
    /\ hymnVerses = <<>>
    /\ hymnRefrain = <<>>
    /\ hymnResult = <<>>
    /\ hymnSlides = <<>>

MailIdle ==
    /\ mailLines = 0
    /\ mailText = <<>>
    /\ mailHtml = FALSE
    /\ mailPc = "off"
    /\ emailBody = <<>>
    /\ mailOut = <<>>

RunIdle ==
    /\ runPc = "off"
    /\ hymnsData = <<>>
    /\ hymnLookups = <<>>
    /\ verseIndex = 0
    /\ fetched = <<>>
    /\ responses = <<>>
    /\ netLog = <<>>
    /\ mailOutcome = "none"
    /\ presented = <<>>
    /\ templateMarkers = {}
    /\ driveFiles = <<>>

PraiseIdle ==
    /\ praiseRev = "none"
    /\ praisePc = "off"
    /\ praiseInput = <<>>
    /\ deck = <<>>
    /\ templateSlide = 0
    /\ created = <<>>
    /\ praiseI = 0

\* the date variables when no call of getUpcomingSaturday is modelled
DateIdle ==
    /\ today = <<>>
    /\ datePc = "off"
    /\ upcomingSaturday = <<>>

RestIdle == VersesIdle /\ MailIdle /\ RunIdle /\ PraiseIdle /\ DateIdle

InitFit ==
    /\ shapeText = <<"{", "}">>
    /\ shapeHeight \in 0..MaxHeight
    /\ shapeFont = 0
    /\ fitPc = "idle"
    /\ fitText = <<>>
    /\ fontSize = 0
    /\ decrements = 0
    /\ prevFit = NoFit
    /\ ExpIdle
    /\ DecIdle
    /\ ScrIdle
    /\ RestIdle

\* entry of adjustFontSizeToFitShape up to the while loop: the text is
\* cleaned and set, fontSize starts at the default
FitCall(text) ==
    /\ fitPc \in {"idle", "done"}
    /\ prevFit' = IF fitPc = "done"
                  THEN [lines |-> NumLines(fitText), size |-> shapeFont]
                  ELSE prevFit
    /\ fitText' = CleanText(text)
    /\ shapeText' = CleanText(text)
    /\ fontSize' = DEFAULT_FONT_SIZE
    /\ decrements' = 0
    /\ fitPc' = "loop"
    /\ UNCHANGED <<shapeHeight, shapeFont>>
    /\ UNCHANGED <<expVars, decVars, scrVars, restVars>>

\* FitDecrement with the fontSize-- left out of the loop body
FitDecrementForgotten ==
    /\ fitPc = "loop"
    /\ FitLoopCond(fitText, fontSize, shapeHeight)
    /\ UNCHANGED <<fontSize, decrements>>
    /\ UNCHANGED <<shapeText, shapeHeight, shapeFont, fitPc, fitText, prevFit>>
    /\ UNCHANGED <<expVars, decVars, scrVars, restVars>>

\* one iteration of the while loop
FitDecrement ==
    /\ fitPc = "loop"
    /\ FitLoopCond(fitText, fontSize, shapeHeight)
    /\ fontSize' = fontSize - 1
    /\ decrements' = decrements + 1
    /\ UNCHANGED <<shapeText, shapeHeight, shapeFont, fitPc, fitText, prevFit>>
    /\ UNCHANGED <<expVars, decVars, scrVars, restVars>>

\* the loop has ended: textRange.getTextStyle().setFontSize(fontSize)
FitSetFontSize ==
    /\ fitPc = "loop"
    /\ ~FitLoopCond(fitText, fontSize, shapeHeight)
    /\ shapeFont' = fontSize
    /\ fitPc' = "done"
    /\ UNCHANGED <<shapeText, shapeHeight, fitText, fontSize, decrements,
                   prevFit>>
    /\ UNCHANGED <<expVars, decVars, scrVars, restVars>>

NextFit ==
    \/ \E text \in FitTexts : FitCall(text)
    \/ FitDecrement
    \/ FitSetFontSize

SpecFit == InitFit /\ [][NextFit]_vars

\* adjustFontSizeToFitShape runs synchronously to its end: once called, the
\* loop keeps iterating while its condition holds and the statement after it
\* is executed when it does not
SpecFitRun ==
    InitFit /\ [][NextFit]_vars /\ WF_vars(FitDecrement) /\ WF_vars(FitSetFontSize)

(***************************************************************************)
(* Entity decoder: decodeHtmlEntities                                      *)
(***************************************************************************)
\* characters other than letters and digits, by UTF-16 code
Punctuation ==
    10 :> "\n" @@ 32 :> " " @@ 34 :> "\"" @@ 35 :> "#" @@ 38 :> "&" @@
    39 :> "'" @@ 59 :> ";" @@ 60 :> "<" @@ 62 :> ">"

\* String.fromCharCode(n); a character the texts of the model do not use
\* otherwise is written u<code>
fromCharCode(n) ==
    LET c == n % 65536
    IN IF c \in 48..57 THEN DigitChars[c - 47]
       ELSE IF c \in 65..90 THEN UpperLetters[c - 64]
       ELSE IF c \in 97..122 THEN LowerLetters[c - 96]
       ELSE IF c \in DOMAIN Punctuation THEN Punctuation[c]
       ELSE "u" \o ToString(c)

\* value of one digit in base 10 or 16
DigitValue(c) ==
    IF \E k \in DOMAIN DigitChars : DigitChars[k] = c
    THEN (CHOOSE k \in DOMAIN DigitChars : DigitChars[k] = c) - 1
    ELSE (CHOOSE k \in 1..6 : c \in {LowerLetters[k], UpperLetters[k]}) + 9

\* the number a digit string denotes: ToNumber(dec), parseInt(hex, 16)
RECURSIVE ParseNumber(_, _)
ParseNumber(digits, base) ==
    IF digits = <<>> THEN 0
    ELSE ParseNumber(SubSeq(digits, 1, Len(digits) - 1), base) * base
           + DigitValue(digits[Len(digits)])

ClsHexDigit == In(Range(DigitChars) \cup {LowerLetters[k] : k \in 1..6}
                    \cup {UpperLetters[k] : k \in 1..6})

\* /&#(\d+);/g
ReDecimalRef == << Lit(<<"&","#">>) \o <<Plus(ClsDigit)>> \o Lit(<<";">>) >>

\* /&#x([a-fA-F0-9]+);/g
ReHexRef == << Lit(<<"&","#","x">>) \o <<Plus(ClsHexDigit)>> \o Lit(<<";">>) >>

\* /&([a-zA-Z]+);/g
ReNamedRef == << Lit(<<"&">>) \o <<Plus(ClsAlpha)>> \o Lit(<<";">>) >>

\* the entities table
entities ==
    <<"a","m","p">> :> <<"&">> @@ <<"l","t">> :> <<"<">> @@
    <<"g","t">> :> <<">">> @@ <<"q","u","o","t">> :> <<"\"">> @@
    <<"a","p","o","s">> :> <<"'">> @@ <<"n","b","s","p">> :> <<" ">>

\* letter-only property names every object inherits from Object.prototype;
\* entities[name] is a function for them
InheritedNames ==
    { <<"c","o","n","s","t","r","u","c","t","o","r">>,
      <<"t","o","S","t","r","i","n","g">>,
      <<"v","a","l","u","e","O","f">> }

\* entities[entity] || match
NamedReplacement(entity, match) ==
    IF entity \in DOMAIN entities THEN entities[entity]
    ELSE IF entity \in InheritedNames THEN <<"function(){[native code]}">>
    ELSE match

\* text.replace(/&#(\d+);/g, (match, dec) => String.fromCharCode(dec))
DecodeDecimal(text) ==
    LET ms == ReMatches(ReDecimalRef, text, 1)
    IN Splice(text, ms,
              [j \in DOMAIN ms |->
                  <<fromCharCode(ParseNumber(Group(text, ms[j], 2, 3), 10))>>])

\* .replace(/&#x([a-fA-F0-9]+);/g, (match, hex) =>
\*     String.fromCharCode(parseInt(hex, 16)))
DecodeHex(text) ==
    LET ms == ReMatches(ReHexRef, text, 1)
    IN Splice(text, ms,
              [j \in DOMAIN ms |->
                  <<fromCharCode(ParseNumber(Group(text, ms[j], 2, 3), 16))>>])

\* DecodeNamed with the g flag missing: only the first reference is replaced
DecodeNamedFirstOnly(text) ==
    LET m == ReFirstMatch(ReNamedRef, text)
    IN IF m.alt = 0 THEN text
       ELSE Splice(text, <<m>>,
                <<NamedReplacement(Group(text, m, 2, 3), Group(text, m, 1, 4))>>)

\* text.replace(/&([a-zA-Z]+);/g, (match, entity) => entities[entity] || match)
DecodeNamed(text) ==
    LET ms == ReMatches(ReNamedRef, text, 1)
    IN Splice(text, ms,
              [j \in DOMAIN ms |->
                  NamedReplacement(Group(text, ms[j], 2, 3),
                                   Group(text, ms[j], 1, 4))])

decodeHtmlEntities(text) == DecodeNamed(DecodeHex(DecodeDecimal(text)))

\* the pieces the decoder's inputs are put together from
DecPieces ==
    { <<"&","a","m","p",";">>, <<"&","l","t",";">>, <<"l","t",";">>,
      <<"&">>, <<"&","#">>, <<"&","#","x">>, <<"3","8",";">>, <<"4","9",";">>,
      <<"2","6",";">>, <<";">>, <<"w">>,
      <<"&","c","o","n","s","t","r","u","c","t","o","r",";">> }

\* the text handed to decodeHtmlEntities
DecText == Flatten(decInput)

InitDec ==
    /\ decInput = <<>>
    /\ decOut = <<>>
    /\ FitIdle
    /\ ExpIdle
    /\ ScrIdle
    /\ RestIdle

\* the caller has one more piece of text
DecAppend(piece) ==
    /\ decOut = <<>>
    /\ Len(decInput) < MaxPieces
    /\ decInput' = Append(decInput, piece)
    /\ UNCHANGED decOut
    /\ UNCHANGED <<fitVars, expVars, scrVars, restVars>>

\* decodeHtmlEntities is applied to the text, then to its own result
Decode ==
    /\ Len(decOut) < 2
    /\ decOut' = Append(decOut, decodeHtmlEntities(IF decOut = <<>> THEN DecText
                                                   ELSE decOut[Len(decOut)]))
    /\ UNCHANGED decInput
    /\ UNCHANGED <<fitVars, expVars, scrVars, restVars>>

NextDec ==
    \/ \E piece \in DecPieces : DecAppend(piece)
    \/ Decode

SpecDec == InitDec /\ [][NextDec]_vars

(***************************************************************************)
(* Scripture extractor: extractScriptureText                               *)
(***************************************************************************)
ClsQuote == In({"\"", "'"})

ClsNoQuote == NotIn({"\"", "'"})

ClsNoGt == NotIn({">"})

\* <[^>]*class\s*=\s*["']?[^"']*NAME[^"']*["']?[^>]*>  with the i flag:
\* an opening tag whose class attribute contains NAME
ReClassTag(name) ==
    Lit(<<"<">>) \o <<Star(ClsNoGt)>> \o LitI(<<"c","l","a","s","s">>)
    \o <<Star(ClsSpace)>> \o Lit(<<"=">>) \o <<Star(ClsSpace), Opt(ClsQuote),
         Star(ClsNoQuote)>> \o LitI(name)
    \o <<Star(ClsNoQuote), Opt(ClsQuote), Star(ClsNoGt)>> \o Lit(<<">">>)

STD_TEXT == <<"s","t","d","-","t","e","x","t">>

VERSENUM == <<"v","e","r","s","e","n","u","m">>

\* /<[^>]*class\s*=\s*["']?[^"']*std-text[^"']*["']?[^>]*>([\s\S]*)/i
ReStdText == << ReClassTag(STD_TEXT) \o <<Star(ClsAny)>> >>

\* /<[^>]*class\s*=\s*["']?[^"']*versenum[^"']*["']?[^>]*>([\s\S]*?)<\/[^>]+>/gi
ReVerseNum ==
    << ReClassTag(VERSENUM) \o <<Lazy(ClsAny)>>
       \o Lit(<<"<","/">>) \o <<Plus(ClsNoGt)>> \o Lit(<<">">>) >>

\* /<sup[^>]*>[\s\S]*?<\/sup>/gi
ReSup ==
    << LitI(<<"<","s","u","p">>) \o <<Star(ClsNoGt)>> \o Lit(<<">">>)
       \o <<Lazy(ClsAny)>> \o LitI(<<"<","/","s","u","p",">">>) >>

\* /<[^>]+>/g
ReTag == << Lit(<<"<">>) \o <<Plus(ClsNoGt)>> \o Lit(<<">">>) >>

\* /\(\s*[A-Z]\s*\)/g
ReCitation ==
    << Lit(<<"(">>) \o <<Star(ClsSpace), One(In(Range(UpperLetters))),
                         Star(ClsSpace)>> \o Lit(<<")">>) >>

\* /\s+/g
ReSpaces == << <<Plus(ClsSpace)>> >>

\* /&#\d+;/g is ReDecimalRef; the literal patterns of the entity clean-up
ReNbsp == << Lit(<<"&","n","b","s","p",";">>) >>

ReAmp == << Lit(<<"&","a","m","p",";">>) >>

ReLt == << Lit(<<"&","l","t",";">>) >>

ReGt == << Lit(<<"&","g","t",";">>) >>

ReQuot == << Lit(<<"&","q","u","o","t",";">>) >>

ReApos39 == << Lit(<<"&","#","3","9",";">>) >>

\* String.prototype.indexOf(c, from), 0-based, -1 when absent
IndexOfChar(text, c, from) ==
    LET found == {i \in from..(Len(text) - 1) : text[i + 1] = c}
    IN IF found = {} THEN -1 ELSE Min(found)

\* text.substring(i, i + n) = str, i 0-based
HasAt(text, i, str) ==
    /\ i + Len(str) <= Len(text)
    /\ SubSeq(text, i + 1, i + Len(str)) = str

DIV_OPEN == <<"<","d","i","v">>

DIV_CLOSE == <<"<","/","d","i","v",">">>

\* the for loop that counts div tags, from index i (0-based) with divCount
\* open divs: the value of endIndex when the loop ends.  Indexes at which
\* neither branch of the loop body applies are passed over.
RECURSIVE DivScan(_, _, _)
DivScan(text, i, divCount) ==
    LET tags == {j \in i..(Len(text) - 1) :
                    HasAt(text, j, DIV_OPEN) \/ HasAt(text, j, DIV_CLOSE)}
    IN IF tags = {} THEN 0
       ELSE LET j == Min(tags)
            IN IF HasAt(text, j, DIV_OPEN)
               THEN LET tagEnd == IndexOfChar(text, ">", j)
                    IN IF tagEnd # -1 THEN DivScan(text, tagEnd + 1, divCount + 1)
                       ELSE DivScan(text, j + 1, divCount)
               ELSE IF divCount - 1 = 0 THEN j
                    ELSE DivScan(text, j + 6, divCount - 1)

\* endIndex > 0 ? textContent.substring(0, endIndex) : textContent
PassageSlice(text) ==
    LET endIndex == DivScan(text, 0, 1)
    IN IF endIndex > 0 THEN SubSeq(text, 1, endIndex) ELSE text

\* decimal digits of a natural number
RECURSIVE Digits(_)
Digits(n) ==
    IF n < 10 THEN <<DigitChars[n + 1]>>
    ELSE Digits(n \div 10) \o <<DigitChars[(n % 10) + 1]>>

\* `{{VERSE_${index}}}`
VerseToken(index) ==
    <<"{","{","V","E","R","S","E","_">> \o Digits(index) \o <<"}","}">>

\* group 1 of a match of the two class-tag expressions: the item after the
\* tag's closing >
ClassTagGroup(name) == Len(ReClassTag(name)) + 1

\* verseNum.replace(/<[^>]+>/g, '').trim() for every marker match of ms, in
\* the order in which the replace callback is called
FoundVerseNumbers(text, ms) ==
    [j \in DOMAIN ms |->
        trim(ReplaceAll(ReTag,
                 Group(text, ms[j], ClassTagGroup(VERSENUM),
                       ClassTagGroup(VERSENUM) + 1),
                 <<>>))]

\* text after the marker matches ms have been replaced by their tokens
ProtectMarkers(text, ms) ==
    Splice(text, ms, [j \in DOMAIN ms |-> VerseToken(j - 1)])

\* the replace calls of "Remove other HTML elements" and "Clean up HTML
\* entities", in the order of the code; trim() is the replacement of the
\* white space at both ends by nothing
Replacements ==
    << [re |-> ReSup,        rep |-> <<>>],
       [re |-> ReTag,        rep |-> <<" ">>],
       [re |-> ReCitation,   rep |-> <<>>],
       [re |-> ReSpaces,     rep |-> <<" ">>],
       [re |-> ReTrimEnds,   rep |-> <<>>],
       [re |-> ReNbsp,       rep |-> <<" ">>],
       [re |-> ReAmp,        rep |-> <<"&">>],
       [re |-> ReLt,         rep |-> <<"<">>],
       [re |-> ReGt,         rep |-> <<">">>],
       [re |-> ReQuot,       rep |-> <<"\"">>],
       [re |-> ReApos39,     rep |-> <<"'">>],
       [re |-> ReDecimalRef, rep |-> <<>>] >>

\* verseNumbers.forEach: the first occurrence of token index is replaced by
\* the verse number and a space (the texts of the model hold no $, so the
\* replacement text is taken literally)
RECURSIVE RestoreFrom(_, _, _)
RestoreFrom(text, numbers, index) ==
    IF index >= Len(numbers) THEN text
    ELSE RestoreFrom(
             ReplaceFirst(<< Lit(VerseToken(index)) >>, text,
                          numbers[index + 1] \o <<" ">>),
             numbers, index + 1)

\* the tag that opens the passage container
ContainerOpen == <<"<","d","i","v"," ","c","l","a","s","s","=","\"","s","t","d","-","t","e","x","t","\"",">">>

\* the pieces a page is put together from after it: verse-number markers,
\* a footnote element's tags, nested div tags, words, a citation mark
ScrPieces ==
    { <<"<","s","u","p"," ","c","l","a","s","s","=","\"","v","e","r","s","e","n","u","m","\"",">","3"," ","<","/","s","u","p",">">>,
      <<"<","s","u","p"," ","c","l","a","s","s","=","\"","v","e","r","s","e","n","u","m","\"",">","4"," ","<","/","s","u","p",">">>,
      <<"<","s","u","p",">">>, <<"<","/","s","u","p",">">>,
      <<"<","d","i","v",">">>, <<"<","/","d","i","v",">">>,
      <<"w">>, <<" ","(","A",")">> }

InitScr ==
    /\ scrInput \in {<<>>, <<ContainerOpen>>}
    /\ scrPc = "page"
    /\ textContent = <<>>
    /\ verseNumbers = <<>>
    /\ replaced = 0
    /\ scrOut = <<>>
    /\ FitIdle
    /\ ExpIdle
    /\ DecIdle
    /\ RestIdle

\* number of pieces of the page after its beginning
ScrBodyPieces ==
    IF scrInput # <<>> /\ Head(scrInput) = ContainerOpen
    THEN Len(scrInput) - 1 ELSE Len(scrInput)

\* the fetched page has one more piece
ScrAppend(piece) ==
    /\ scrPc = "page"
    /\ ScrBodyPieces < MaxScrPieces
    /\ scrInput' = Append(scrInput, piece)
    /\ UNCHANGED <<scrPc, textContent, verseNumbers, replaced, scrOut>>
    /\ UNCHANGED <<fitVars, expVars, decVars, restVars>>

\* the group of the std-text match m in htmlContent, <<>> when there is no
\* match
StdTextGroup(htmlContent, m) ==
    IF m.alt = 0 THEN <<>>
    ELSE Group(htmlContent, m, ClassTagGroup(STD_TEXT), ClassTagGroup(STD_TEXT) + 1)

\* extractScriptureText(htmlContent) is called: htmlContent.match(stdTextRegex),
\* then return '' when nothing was found, or textContent = stdTextMatch[1]
ScrMatch ==
    /\ scrPc = "page"
    /\ textContent' = StdTextGroup(Flatten(scrInput),
                                   ReFirstMatch(ReStdText, Flatten(scrInput)))
    /\ IF textContent' = <<>>
       THEN /\ scrPc' = "done"
            /\ scrOut' = <<[text |-> <<>>, verseNumbers |-> <<>>]>>
       ELSE /\ scrPc' = "scan"
            /\ UNCHANGED scrOut
    /\ UNCHANGED <<scrInput, verseNumbers, replaced>>
    /\ UNCHANGED <<fitVars, expVars, decVars, restVars>>

\* "Find the closing tag by counting div tags"
ScrDivScan ==
    /\ scrPc = "scan"
    /\ textContent' = PassageSlice(textContent)
    /\ scrPc' = "protect"
    /\ UNCHANGED <<scrInput, verseNumbers, replaced, scrOut>>
    /\ UNCHANGED <<fitVars, expVars, decVars, restVars>>

\* "Extract and preserve verse numbers": the replace call with the callback
ScrProtect ==
    /\ scrPc = "protect"
    /\ verseNumbers' = FoundVerseNumbers(textContent,
                                         ReMatches(ReVerseNum, textContent, 1))
    /\ textContent' = ProtectMarkers(textContent,
                                     ReMatches(ReVerseNum, textContent, 1))
    /\ scrPc' = "replace"
    /\ UNCHANGED <<scrInput, replaced, scrOut>>
    /\ UNCHANGED <<fitVars, expVars, decVars, restVars>>

\* the next replace call of "Remove other HTML elements" and "Clean up HTML
\* entities"
ScrReplace ==
    /\ scrPc = "replace"
    /\ replaced < Len(Replacements)
    /\ textContent' = ReplaceAll(Replacements[replaced + 1].re, textContent,
                                 Replacements[replaced + 1].rep)
    /\ replaced' = replaced + 1
    /\ UNCHANGED <<scrInput, scrPc, verseNumbers, scrOut>>
    /\ UNCHANGED <<fitVars, expVars, decVars, restVars>>

\* "Restore verse numbers" and return textContent
ScrRestore ==
    /\ scrPc = "replace"
    /\ replaced = Len(Replacements)
    /\ textContent' = RestoreFrom(textContent, verseNumbers, 0)
    /\ scrOut' = <<[text |-> textContent', verseNumbers |-> verseNumbers]>>
    /\ scrPc' = "done"
    /\ UNCHANGED <<scrInput, verseNumbers, replaced>>
    /\ UNCHANGED <<fitVars, expVars, decVars, restVars>>

NextScr ==
    \/ \E piece \in ScrPieces : ScrAppend(piece)
    \/ ScrMatch
    \/ ScrDivScan
    \/ ScrProtect
    \/ ScrReplace
    \/ ScrRestore

SpecScr == InitScr /\ [][NextScr]_vars

(***************************************************************************)
(* Hymn expansion: createVersesSlides inside createPresentation            *)
(***************************************************************************)
OPENING_LYRICS ==
    <<"{","{","o","p","e","n","i","n","g","_","l","y","r","i","c","s","}","}">>

CLOSING_LYRICS ==
    <<"{","{","c","l","o","s","i","n","g","_","l","y","r","i","c","s","}","}">>

HymnTypes == <<"opening", "closing">>

LyricsMarker(h) == IF h = "opening" THEN OPENING_LYRICS ELSE CLOSING_LYRICS

\* verse texts as extractHymnVerses returns them (trimmed, not empty, without
\* blank lines, without the word refrain): verse i of a hymn is either two
\* lines of words or a number, and differs from the other verses of the hymn
VerseText(kind, i) ==
    IF kind = "words" THEN <<LowerLetters[i], "\n", "w">>
    ELSE <<DigitChars[i + 1], "2">>

VerseLists ==
    UNION { { [i \in 1..n |-> VerseText(kinds[i], i)] :
                kinds \in [1..n -> {"words", "digits"}] } : n \in 0..MaxVerses }

\* refrain values as extractHymnVerses returns them: "" or a text that
\* contains "refrain" in some case
RefrainPool == { <<>>,
                 <<"r","e","f","r","a","i","n"," ","R","e","f","r","a","i","n">> }

HymnInputs == [verses : VerseLists, refrain : RefrainPool]

\* /Refrain/g
ReRefrain == << Lit(<<"R","e","f","r","a","i","n">>) >>

\* /^\d+$/
ReDigitsOnly == << <<Bol, Plus(ClsDigit), Eol>> >>

\* VerseBlocks with the refrain pushed after the last verse as well
VerseBlocksRefrainAfterLast(verses, refrain, index) ==
    LET verse == verses[index]
    IN IF verse # <<>> /\ trim(verse) # <<>>
       THEN <<[type |-> "verse", text |-> verse]>>
            \o (IF refrain # <<>> /\ index <= Len(verses)
                THEN <<[type |-> "refrain",
                        text |-> ReplaceAll(ReRefrain, refrain,
                                     <<"[","R","e","f","r","a","i","n","]">>)]>>
                ELSE <<>>)
       ELSE <<>>

\* what the body of verses.forEach pushes for the verse at index (1-based)
VerseBlocks(verses, refrain, index) ==
    LET verse == verses[index]
    IN IF verse # <<>> /\ trim(verse) # <<>>
       THEN <<[type |-> "verse", text |-> verse]>>
            \o (IF refrain # <<>> /\ index < Len(verses)
                THEN <<[type |-> "refrain",
                        text |-> ReplaceAll(ReRefrain, refrain,
                                     <<"[","R","e","f","r","a","i","n","]">>)]>>
                ELSE <<>>)
       ELSE <<>>

\* slidesToCreate after verses.forEach
RECURSIVE InterleaveFrom(_, _, _)
InterleaveFrom(verses, refrain, index) ==
    IF index > Len(verses) THEN <<>>
    ELSE VerseBlocks(verses, refrain, index)
           \o InterleaveFrom(verses, refrain, index + 1)

Interleave(verses, refrain) == InterleaveFrom(verses, refrain, 1)

\* the test that decides slidesToCreate.pop()
IsNumericOnly(text) == ReTest(ReDigitsOnly, trim(text))

\* DropTrailingNumeric that filters every numeric-only entry out
DropEveryNumeric(list) ==
    SelectSeq(list, LAMBDA b : ~IsNumericOnly(b.text))

\* "Remove numeric-only last slide if present"
DropTrailingNumeric(list) ==
    IF Len(list) > 0 /\ IsNumericOnly(list[Len(list)].text)
    THEN SubSeq(list, 1, Len(list) - 1)
    ELSE list

\* slidesToCreate.reverse(), without it, as a bug would leave it
ReverseForgotten(list) == list

Reverse(list) == [i \in DOMAIN list |-> list[Len(list) + 1 - i]]

\* each entry together with its position in the block list
Numbered(list) ==
    [k \in DOMAIN list |-> [type |-> list[k].type, text |-> list[k].text, n |-> k]]

\* position of the lyrics template slide of hymn h, 0 when it is gone
TemplateIndex(h) ==
    IF \E i \in DOMAIN slides : slides[i].kind = "template" /\ slides[i].hymn = h
    THEN CHOOSE i \in DOMAIN slides :
             slides[i].kind = "template" /\ slides[i].hymn = h
    ELSE 0

\* slide.duplicate(): the copy stands immediately after the original
Duplicate(ss, i, copy) == SubSeq(ss, 1, i) \o <<copy>> \o SubSeq(ss, i + 1, Len(ss))

\* slide.remove() left out
RemoveForgotten(ss, i) == ss

\* slide.remove()
Remove(ss, i) == SubSeq(ss, 1, i - 1) \o SubSeq(ss, i + 1, Len(ss))

TitleSlide(h) == [kind |-> "title", hymn |-> h, text |-> <<"t">>,
                  font |-> 0, block |-> 0]

TemplateSlide(h) == [kind |-> "template", hymn |-> h, text |-> LyricsMarker(h),
                     font |-> 0, block |-> 0]

PerHymn(x) == [h \in Range(HymnTypes) |-> x]

PASSAGE == <<"{","{","p","a","s","s","a","g","e","}","}">>

VERSE == <<"{","{","v","e","r","s","e","}","}">>

SERMON == <<"{","{","s","e","r","m","o","n","}","}">>

SPEAKER == <<"{","{","s","p","e","a","k","e","r","}","}">>

\* the texts of the one shape of the template's programme slide
ProgramTexts ==
    { PASSAGE, VERSE \o <<"\n">> \o PASSAGE, SERMON \o <<" ">> \o SPEAKER }

ProgramSlide(text) == [kind |-> "program", hymn |-> "none", text |-> text,
                       font |-> 0, block |-> 0]

\* what fetchScriptureContent returns: a passage with its references, or
\* two empty strings
ScriptureContents ==
    { [passage |-> <<"g","o">>, verse |-> <<"J","n","3">>],
      [passage |-> <<>>, verse |-> <<>>] }

\* the row of the sheet, as far as the slides show it
SheetRow == [sermonTitle |-> <<"s">>, speaker |-> <<"k">>]

\* state of createPresentation when createVersesSlides is called: the copy of
\* the template holds the four anchor slides and the programme slide, and
\* updateTitleSlides has returned
Init ==
    /\ hymnDetails \in [Range(HymnTypes) -> HymnInputs]
    /\ lyricsHeight = LyricsHeight
    /\ \E text \in ProgramTexts :
          slides = <<TitleSlide("opening"), TemplateSlide("opening"),
                     TitleSlide("closing"), TemplateSlide("closing"),
                     ProgramSlide(text)>>
    /\ scriptureContent \in ScriptureContents
    /\ completed = <<"updateTitleSlides">>
    /\ pc = "opening"
    /\ stage = "interleave"
    /\ slidesToCreate = <<>>
    /\ interleaved = PerHymn(<<>>)
    /\ blocks = PerHymn(<<>>)
    /\ dupCalls = PerHymn(0)
    /\ failures = 0
    /\ FitIdle
    /\ DecIdle
    /\ ScrIdle
    /\ RestIdle

InHymn == pc \in Range(HymnTypes)

\* createSlidesForHymn: verses.forEach builds slidesToCreate
InterleaveStep ==
    /\ InHymn /\ stage = "interleave"
    /\ slidesToCreate' = Interleave(hymnDetails[pc].verses, hymnDetails[pc].refrain)
    /\ interleaved' = [interleaved EXCEPT ![pc] = slidesToCreate']
    /\ stage' = "drop"
    /\ UNCHANGED <<hymnDetails, lyricsHeight, slides, pc, blocks, dupCalls,
                   failures>>
    /\ UNCHANGED <<scriptureContent, completed>>
    /\ UNCHANGED <<fitVars, decVars, scrVars, restVars>>

\* createSlidesForHymn: the numeric-only last entry is popped, then the list
\* is reversed for the duplicating forEach
DropStep ==
    /\ InHymn /\ stage = "drop"
    /\ blocks' = [blocks EXCEPT ![pc] = DropTrailingNumeric(slidesToCreate)]
    /\ slidesToCreate' = Reverse(Numbered(blocks'[pc]))
    /\ stage' = "duplicate"
    /\ UNCHANGED <<hymnDetails, lyricsHeight, slides, pc, interleaved, dupCalls,
                   failures>>
    /\ UNCHANGED <<scriptureContent, completed>>
    /\ UNCHANGED <<fitVars, decVars, scrVars, restVars>>

\* the slide that one iteration of slidesToCreate.reverse().forEach leaves
\* behind for the entry slideData (block number slideData.n of the hymn)
FilledSlide(h, slideData, outcome) ==
    IF outcome = "ok"
    THEN [kind |-> "lyrics", hymn |-> h, text |-> CleanText(slideData.text),
          font |-> AutofitSize(slideData.text, lyricsHeight),
          block |-> slideData.n]
    ELSE [kind |-> "lyrics", hymn |-> h, text |-> LyricsMarker(h),
          font |-> 0, block |-> slideData.n]

\* DuplicateStep as the expansion would be if the anchor itself took the last
\* block and only the other blocks were duplicated
DuplicateStepAnchorLast(outcome) ==
    /\ InHymn /\ stage = "duplicate"
    /\ slidesToCreate # <<>>
    /\ outcome # "ok" => failures < MaxFailures
    /\ LET slideData == Head(slidesToCreate)
           t == TemplateIndex(pc)
           isLast == slideData.n = Len(blocks[pc])
       IN /\ slides' =
                IF outcome = "throw" THEN slides
                ELSE IF isLast
                     THEN [slides EXCEPT ![t] =
                              [@ EXCEPT !.text = FilledSlide(pc, slideData, outcome).text]]
                     ELSE Duplicate(slides, t, FilledSlide(pc, slideData, outcome))
          /\ dupCalls' = [dupCalls EXCEPT ![pc] = IF isLast THEN @ ELSE @ + 1]
    /\ slidesToCreate' = Tail(slidesToCreate)
    /\ failures' = IF outcome = "ok" THEN failures ELSE failures + 1
    /\ UNCHANGED <<hymnDetails, lyricsHeight, pc, stage, interleaved, blocks>>
    /\ UNCHANGED <<scriptureContent, completed>>
    /\ UNCHANGED <<fitVars, decVars, scrVars, restVars>>

\* DuplicateStep with the try/catch around the whole forEach instead of its
\* body: the first failure ends the loop
DuplicateStepAborting(outcome) ==
    /\ InHymn /\ stage = "duplicate"
    /\ slidesToCreate # <<>>
    /\ outcome # "ok" => failures < MaxFailures
    /\ slides' = IF outcome = "throw" THEN slides
                 ELSE Duplicate(slides, TemplateIndex(pc),
                          FilledSlide(pc, Head(slidesToCreate), outcome))
    /\ slidesToCreate' = IF outcome = "ok" THEN Tail(slidesToCreate) ELSE <<>>
    /\ dupCalls' = [dupCalls EXCEPT ![pc] = @ + 1]
    /\ failures' = IF outcome = "ok" THEN failures ELSE failures + 1
    /\ UNCHANGED <<hymnDetails, lyricsHeight, pc, stage, interleaved, blocks>>
    /\ UNCHANGED <<scriptureContent, completed>>
    /\ UNCHANGED <<fitVars, decVars, scrVars, restVars>>

\* one iteration of slidesToCreate.reverse().forEach: duplicate the template,
\* find the text shape of the copy, set the text and the font size.
\* outcome "ok": no call throws; "noShape": findMainTextShape gives null or
\* adjustFontSizeToFitShape fails before setText; "throw": duplicate() throws
DuplicateStep(outcome) ==
    /\ InHymn /\ stage = "duplicate"
    /\ slidesToCreate # <<>>
    /\ outcome # "ok" => failures < MaxFailures
    /\ slides' = IF outcome = "throw" THEN slides
                 ELSE Duplicate(slides, TemplateIndex(pc),
                          FilledSlide(pc, Head(slidesToCreate), outcome))
    /\ slidesToCreate' = Tail(slidesToCreate)
    /\ dupCalls' = [dupCalls EXCEPT ![pc] = @ + 1]
    /\ failures' = IF outcome = "ok" THEN failures ELSE failures + 1
    /\ UNCHANGED <<hymnDetails, lyricsHeight, pc, stage, interleaved, blocks>>
    /\ UNCHANGED <<scriptureContent, completed>>
    /\ UNCHANGED <<fitVars, decVars, scrVars, restVars>>

\* HymnDone with the clean-up of the template slides placed right after
\* createVersesSlides, before the marker updates
HymnDoneThenCleanUp ==
    /\ InHymn /\ stage = "duplicate"
    /\ slidesToCreate = <<>>
    /\ pc' = IF pc = "opening" THEN "closing" ELSE "removeOpening"
    /\ stage' = IF pc = "opening" THEN "interleave" ELSE "off"
    /\ completed' = IF pc = "opening" THEN completed
                    ELSE Append(completed, "createVersesSlides")
    /\ UNCHANGED <<hymnDetails, lyricsHeight, slides, slidesToCreate,
                   interleaved, blocks, dupCalls, failures>>
    /\ UNCHANGED scriptureContent
    /\ UNCHANGED <<fitVars, decVars, scrVars, restVars>>

\* createSlidesForHymn returns: on to the closing hymn, or createVersesSlides
\* returns to createPresentation
HymnDone ==
    /\ InHymn /\ stage = "duplicate"
    /\ slidesToCreate = <<>>
    /\ pc' = IF pc = "opening" THEN "closing" ELSE "updateScripture"
    /\ stage' = IF pc = "opening" THEN "interleave" ELSE "off"
    /\ completed' = IF pc = "opening" THEN completed
                    ELSE Append(completed, "createVersesSlides")
    /\ UNCHANGED <<hymnDetails, lyricsHeight, slides, slidesToCreate,
                   interleaved, blocks, dupCalls, failures>>
    /\ UNCHANGED scriptureContent
    /\ UNCHANGED <<fitVars, decVars, scrVars, restVars>>

\* textRange.replaceAllText(marker, by)
replaceAllText(text, marker, by) == ReplaceAll(<<Lit(marker)>>, text, by)

\* adjustFontSizeToFitShape(shape, text) on the shape of a slide: setText of
\* the cleaned text, then the font size
AdjustedShape(slide, text) ==
    [slide EXCEPT !.text = CleanText(text),
                  !.font = AutofitSize(text, lyricsHeight)]

\* the slides array of createPresentation is read before any slide is
\* duplicated: the forEach of an update visits the template's slides only
Visited(slide) == slide.kind # "lyrics"

\* the body of shapes.forEach of updateScriptureSlides on the shape of a slide
ScriptureShape(slide, content) ==
    LET text == slide.text
        withPassage ==
            IF Includes(text, PASSAGE)
            THEN AdjustedShape(
                     [slide EXCEPT !.text = replaceAllText(@, PASSAGE, content.passage)],
                     content.passage)
            ELSE slide
    IN IF Includes(text, VERSE)
       THEN [withPassage EXCEPT !.text = replaceAllText(@, VERSE, content.verse)]
       ELSE withPassage

\* updateScriptureSlides(slides, scriptureContent)
UpdateScripture ==
    /\ pc = "updateScripture"
    /\ slides' = [i \in DOMAIN slides |->
                     IF Visited(slides[i])
                     THEN ScriptureShape(slides[i], scriptureContent)
                     ELSE slides[i]]
    /\ pc' = "updateSermon"
    /\ completed' = Append(completed, "updateScriptureSlides")
    /\ UNCHANGED <<hymnDetails, lyricsHeight, stage, slidesToCreate,
                   interleaved, blocks, dupCalls, failures, scriptureContent>>
    /\ UNCHANGED <<fitVars, decVars, scrVars, restVars>>

\* the body of shapes.forEach of updateSermonSlides
SermonShape(slide, sermonTitle) ==
    IF Includes(slide.text, SERMON)
    THEN [slide EXCEPT !.text = replaceAllText(@, SERMON, sermonTitle)]
    ELSE slide

\* updateSermonSlides(slides, hymnsData.sermonTitle)
UpdateSermon ==
    /\ pc = "updateSermon"
    /\ slides' = [i \in DOMAIN slides |->
                     IF Visited(slides[i])
                     THEN SermonShape(slides[i], SheetRow.sermonTitle)
                     ELSE slides[i]]
    /\ pc' = "updateParticipants"
    /\ completed' = Append(completed, "updateSermonSlides")
    /\ UNCHANGED <<hymnDetails, lyricsHeight, stage, slidesToCreate,
                   interleaved, blocks, dupCalls, failures, scriptureContent>>
    /\ UNCHANGED <<fitVars, decVars, scrVars, restVars>>

\* the body of shapes.forEach of updateParticipantsSlides, for the
\* placeholder of the speaker (the other four are replaced the same way)
ParticipantsShape(slide, row) ==
    IF Includes(slide.text, SPEAKER)
    THEN [slide EXCEPT !.text = replaceAllText(@, SPEAKER, row.speaker)]
    ELSE slide

\* updateParticipantsSlides(slides, hymnsData)
UpdateParticipants ==
    /\ pc = "updateParticipants"
    /\ slides' = [i \in DOMAIN slides |->
                     IF Visited(slides[i])
                     THEN ParticipantsShape(slides[i], SheetRow)
                     ELSE slides[i]]
    /\ pc' = "updatePraise"
    /\ completed' = Append(completed, "updateParticipantsSlides")
    /\ UNCHANGED <<hymnDetails, lyricsHeight, stage, slidesToCreate,
                   interleaved, blocks, dupCalls, failures, scriptureContent>>
    /\ UNCHANGED <<fitVars, decVars, scrVars, restVars>>

\* if (praiseData) updatePraiseSongSlides(presentation, praiseData): no
\* slide of this deck holds a praise marker, so the call, when made, finds no
\* template slide and returns
UpdatePraise(praiseData) ==
    /\ pc = "updatePraise"
    /\ pc' = "removeOpening"
    /\ completed' = IF praiseData
                    THEN Append(completed, "updatePraiseSongSlides")
                    ELSE completed
    /\ UNCHANGED <<hymnDetails, lyricsHeight, slides, stage, slidesToCreate,
                   interleaved, blocks, dupCalls, failures, scriptureContent>>
    /\ UNCHANGED <<fitVars, decVars, scrVars, restVars>>

\* templateSlides.openingLyrics.remove()
RemoveOpeningTemplate ==
    /\ pc = "removeOpening"
    /\ slides' = Remove(slides, TemplateIndex("opening"))
    /\ pc' = "removeClosing"
    /\ completed' = Append(completed, "openingLyrics.remove")
    /\ UNCHANGED <<hymnDetails, lyricsHeight, stage, slidesToCreate,
                   interleaved, blocks, dupCalls, failures>>
    /\ UNCHANGED scriptureContent
    /\ UNCHANGED <<fitVars, decVars, scrVars, restVars>>

\* templateSlides.closingLyrics.remove()
RemoveClosingTemplate ==
    /\ pc = "removeClosing"
    /\ slides' = Remove(slides, TemplateIndex("closing"))
    /\ pc' = "save"
    /\ completed' = Append(completed, "closingLyrics.remove")
    /\ UNCHANGED <<hymnDetails, lyricsHeight, stage, slidesToCreate,
                   interleaved, blocks, dupCalls, failures>>
    /\ UNCHANGED scriptureContent
    /\ UNCHANGED <<fitVars, decVars, scrVars, restVars>>

\* presentation.saveAndClose()
SaveAndClose ==
    /\ pc = "save"
    /\ pc' = "saved"
    /\ completed' = Append(completed, "saveAndClose")
    /\ UNCHANGED <<hymnDetails, lyricsHeight, slides, stage, slidesToCreate,
                   interleaved, blocks, dupCalls, failures>>
    /\ UNCHANGED scriptureContent
    /\ UNCHANGED <<fitVars, decVars, scrVars, restVars>>

Next ==
    \/ InterleaveStep
    \/ DropStep
    \/ \E outcome \in {"ok", "noShape", "throw"} : DuplicateStep(outcome)
    \/ HymnDone
    \/ UpdateScripture
    \/ UpdateSermon
    \/ UpdateParticipants
    \/ \E praiseData \in BOOLEAN : UpdatePraise(praiseData)
    \/ RemoveOpeningTemplate
    \/ RemoveClosingTemplate
    \/ SaveAndClose

Spec == Init /\ [][Next]_vars

(***************************************************************************)
(* Hymn page: extractHymnVerses                                            *)
(***************************************************************************)
\* most paragraph elements of a hymn page
MaxHvParagraphs == 3

\* . of the regular expressions: any character but a line terminator
ClsNoNewline == NotIn({"\n", "\r"})

\* /<table[^>]*>([\s\S]*?)<\/table>/g
ReTable ==
    << Lit(<<"<","t","a","b","l","e">>) \o <<Star(ClsNoGt)>> \o Lit(<<">">>)
       \o <<Lazy(ClsAny)>> \o Lit(<<"<","/","t","a","b","l","e",">">>) >>

\* /<p>([\s\S]*?)<\/p>/g
ReP == << Lit(<<"<","p",">">>) \o <<Lazy(ClsAny)>> \o Lit(<<"<","/","p",">">>) >>

LINEBREAK == <<"|","|","L","I","N","E","B","R","E","A","K","|","|">>

\* pTag.replace(/<a[^>]*>.*?<\/a>/g, '').replace(/<br\s*\/?>/gi, '||LINEBREAK||')
\*     .replace(/<\/?[^>]+(>|$)/g, "").trim()
VerseHtmlSteps ==
    << [re  |-> << Lit(<<"<","a">>) \o <<Star(ClsNoGt)>> \o Lit(<<">">>)
                   \o <<Lazy(ClsNoNewline)>> \o Lit(<<"<","/","a",">">>) >>,
        rep |-> <<>>],
       [re  |-> << LitI(<<"<","b","r">>) \o <<Star(ClsSpace), Opt(In({"/"}))>>
                   \o Lit(<<">">>) >>,
        rep |-> LINEBREAK],
       [re  |-> << Lit(<<"<">>) \o <<Opt(In({"/"})), Plus(ClsNoGt)>> \o Lit(<<">">>),
                   Lit(<<"<">>) \o <<Opt(In({"/"})), Plus(ClsNoGt), Eol>> >>,
        rep |-> <<>>],
       [re  |-> ReTrimEnds, rep |-> <<>>] >>

\* decodedVerse.replace(/\|\|LINEBREAK\|\|/g, '\n').replace(/\n\s*\n/g, '\n')
\*     .replace(/^\s+|\s+$/g, '').replace(/[ \t]+/g, ' ')
CleanedVerseSteps ==
    << [re |-> << Lit(LINEBREAK) >>,                 rep |-> <<"\n">>],
       [re |-> ReBlankLines,                         rep |-> <<"\n">>],
       [re |-> ReTrimEnds,                           rep |-> <<>>],
       [re |-> << <<Plus(In({" ", "\t"}))>> >>,      rep |-> <<" ">>] >>

\* the replace calls k, k+1, ... of steps applied to s one after the other
\* (s is evaluated before the next call is looked at)
RECURSIVE ApplySteps(_, _, _)
ApplySteps(steps, k, s) ==
    IF Len(s) >= 0 /\ k <= Len(steps)
    THEN ApplySteps(steps, k + 1, ReplaceAll(steps[k].re, s, steps[k].rep))
    ELSE s

\* the texts of the matches ms of s: what s.match(/re/g) returns
MatchedTexts(s, ms) ==
    [j \in DOMAIN ms |-> SubSeq(s, ms[j].at[1], MatchEnd(ms[j]) - 1)]

\* tableMatches[0] of the match m of ReTable in html, <<>> when html.match
\* gives null
FirstTable(html, m) ==
    IF m.alt = 0 THEN <<>> ELSE SubSeq(html, m.at[1], MatchEnd(m) - 1)

\* contentBoxHtml.match(/<p>([\s\S]*?)<\/p>/g) || []
PTagsOf(contentBoxHtml) ==
    MatchedTexts(contentBoxHtml, ReMatches(ReP, contentBoxHtml, 1))

\* cleanedVerse of a paragraph match; <<>> when the test on decodedVerse
\* fails, where the loop body does nothing, as it does for an empty
\* cleanedVerse
CleanedOfDecoded(decodedVerse) ==
    IF decodedVerse # <<>> /\ trim(decodedVerse) # <<>>
    THEN ApplySteps(CleanedVerseSteps, 1, decodedVerse)
    ELSE <<>>

CleanedVerse(pTag) ==
    CleanedOfDecoded(decodeHtmlEntities(ApplySteps(VerseHtmlSteps, 1, pTag)))

REFRAIN == <<"r","e","f","r","a","i","n">>

\* the test of line 817 without toLowerCase()
IsRefrainCaseSensitive(cleanedVerse) == Includes(cleanedVerse, REFRAIN)

\* cleanedVerse.toLowerCase().includes("refrain")
IsRefrain(cleanedVerse) == Includes(toLowerCase(cleanedVerse), REFRAIN)

TableOpen == <<"<","t","a","b","l","e",">">>

TableClose == <<"<","/","t","a","b","l","e",">">>

PWords == <<"<","p",">","a","<","b","r",">","w","<","/","p",">">>

PSpaced == <<"<","p",">"," ","b"," "," ","w","<","b","r"," ","/",">","\n","<","B","R",">","c"," ","<","/","p",">">>

PRefrain == <<"<","p",">","R","e","f","r","a","i","n","<","b","r",">","w","<","/","p",">">>

PRefrainUpper == <<"<","p",">","R","E","F","R","A","I","N"," ","w","<","/","p",">">>

PAnchor == <<"<","p",">","<","a"," ","h","r","e","f","=","\"","x","\"",">","n","<","/","a",">","w"," ","&","a","m","p",";"," ","w","<","/","p",">">>

PBreakOnly == <<"<","p",">","<","b","r",">","<","/","p",">">>

PBlank == <<"<","p",">"," ","<","/","p",">">>

\* the paragraph elements a hymn page is put together from
HvParagraphs ==
    {PWords, PSpaced, PRefrain, PRefrainUpper, PAnchor, PBreakOnly, PBlank}

\* /<h1[^>]*class\s*=\s*["']?title\s+single-title\s+entry-title["']?[^>]*>(.*?)<\/h1>/
ReTitle ==
    << Lit(<<"<","h","1">>) \o <<Star(ClsNoGt)>>
       \o Lit(<<"c","l","a","s","s">>) \o <<Star(ClsSpace)>> \o Lit(<<"=">>)
       \o <<Star(ClsSpace), Opt(ClsQuote)>> \o Lit(<<"t","i","t","l","e">>)
       \o <<Plus(ClsSpace)>>
       \o Lit(<<"s","i","n","g","l","e","-","t","i","t","l","e">>)
       \o <<Plus(ClsSpace)>>
       \o Lit(<<"e","n","t","r","y","-","t","i","t","l","e">>)
       \o <<Opt(ClsQuote), Star(ClsNoGt)>> \o Lit(<<">">>)
       \o <<Lazy(ClsNoNewline)>> \o Lit(<<"<","/","h","1",">">>) >>

UNTITLED_HYMN ==
    <<"U","n","t","i","t","l","e","d"," ","H","y","m","n">>

\* titleMatch ? decodeHtmlEntities(titleMatch[1].trim()) : "Untitled Hymn"
TitleOfMatch(html, titleMatch) ==
    IF titleMatch.alt # 0
    THEN decodeHtmlEntities(trim(Group(html, titleMatch, 16, 17)))
    ELSE UNTITLED_HYMN

extractHymnTitle(html) == TitleOfMatch(html, ReFirstMatch(ReTitle, html))

NOT_FOUND ==
    <<"4","0","4"," ","N","o","t"," ","F","o","u","n","d">>

\* the heading of a hymn page
H1Title ==
    <<"<","h","1"," ","c","l","a","s","s","=","\"","t","i","t","l","e"," ",
      "s","i","n","g","l","e","-","t","i","t","l","e"," ","e","n","t","r","y",
      "-","t","i","t","l","e","\"",">"," ","A"," ","&","a","m","p",";"," ",
      "b"," ","<","/","h","1",">">>

\* a heading without the classes of the title
H1Plain == <<"<","h","1",">","x","<","/","h","1",">">>

\* how a fetched page begins
PageStarts ==
    { <<>>, <<TableOpen>>, <<H1Title>>, <<H1Title, TableOpen>>, <<H1Plain>>,
      <<NOT_FOUND>> }

OldIdle == FitIdle /\ ExpIdle /\ DecIdle /\ ScrIdle

\* a page that begins with a table, or has none
InitVerses ==
    /\ OldIdle /\ MailIdle /\ RunIdle /\ PraiseIdle /\ DateIdle
    /\ hvInput \in PageStarts
    /\ hvPc = "page"
    /\ pTags = <<>>
    /\ hymnVerses = <<>>
    /\ hymnRefrain = <<>>
    /\ hymnResult = <<>>
    /\ hymnSlides = <<>>

\* the page goes on with a paragraph element, or with the closing tag of
\* a table (there is one at most)
HvAppend(piece) ==
    /\ hvPc = "page"
    /\ IF piece = TableClose
       THEN \A k \in DOMAIN hvInput : hvInput[k] # TableClose
       ELSE Cardinality({k \in DOMAIN hvInput : hvInput[k] \in HvParagraphs})
                < MaxHvParagraphs
    /\ hvInput' = Append(hvInput, piece)
    /\ UNCHANGED <<hvPc, pTags, hymnVerses, hymnRefrain>>
    /\ UNCHANGED <<hymnResult, hymnSlides>>
    /\ UNCHANGED <<oldVars, mailVars, runVars, praiseVars, dateVars>>

\* lines 792-799: no table gives { verses: [], refrain: "" }, else the
\* paragraphs of the first table are collected
HvMatchTable ==
    /\ hvPc = "page"
    /\ \E contentBoxHtml \in
           {FirstTable(Flatten(hvInput), ReFirstMatch(ReTable, Flatten(hvInput)))} :
         IF contentBoxHtml = <<>>
         THEN /\ hvPc' = "done"
              /\ pTags' = <<>>
         ELSE /\ hvPc' = "each"
              /\ pTags' = PTagsOf(contentBoxHtml)
    /\ UNCHANGED <<hvInput, hymnVerses, hymnRefrain>>
    /\ UNCHANGED <<hymnResult, hymnSlides>>
    /\ UNCHANGED <<oldVars, mailVars, runVars, praiseVars, dateVars>>

\* lines 801-823: one turn of pTags.forEach
HvEach ==
    /\ hvPc = "each"
    /\ pTags # <<>>
    /\ \E cleanedVerse \in {CleanedVerse(Head(pTags))} :
         IF IsRefrain(cleanedVerse)
         THEN /\ hymnRefrain' = cleanedVerse
              /\ UNCHANGED hymnVerses
         ELSE IF Len(cleanedVerse) > 0
         THEN /\ hymnVerses' = Append(hymnVerses, cleanedVerse)
              /\ UNCHANGED hymnRefrain
         ELSE UNCHANGED <<hymnVerses, hymnRefrain>>
    /\ pTags' = Tail(pTags)
    /\ UNCHANGED <<hvInput, hvPc>>
    /\ UNCHANGED <<hymnResult, hymnSlides>>
    /\ UNCHANGED <<oldVars, mailVars, runVars, praiseVars, dateVars>>

\* line 825: return { verses, refrain }
HvReturn ==
    /\ hvPc = "each"
    /\ pTags = <<>>
    /\ hvPc' = "done"
    /\ UNCHANGED <<hvInput, pTags, hymnVerses, hymnRefrain>>
    /\ UNCHANGED <<hymnResult, hymnSlides>>
    /\ UNCHANGED <<oldVars, mailVars, runVars, praiseVars, dateVars>>

\* the result of fetchHymnDetails for one hymn whose page html was fetched
\* with status 200 (the page of the other hymn passing the checks), if a page
\* without verses were treated like a page not found
HymnOfNeedingVerses(html, verses, refrain) ==
    IF html = <<>> \/ Includes(html, NOT_FOUND) \/ verses = <<>>
    THEN [found |-> FALSE, title |-> <<>>, verses |-> <<>>, refrain |-> <<>>]
    ELSE [found |-> TRUE, title |-> extractHymnTitle(html),
          verses |-> verses, refrain |-> refrain]

\* the result of fetchHymnDetails for one hymn whose page html was fetched
\* with status 200 (the page of the other hymn passing the checks):
\* found = FALSE stands for the null of line 352
HymnOf(html, verses, refrain) ==
    IF html = <<>> \/ Includes(html, NOT_FOUND)
    THEN [found |-> FALSE, title |-> <<>>, verses |-> <<>>, refrain |-> <<>>]
    ELSE [found |-> TRUE, title |-> extractHymnTitle(html),
          verses |-> verses, refrain |-> refrain]

\* fetchHymnDetails returns: null, or the title with what extractHymnVerses
\* returned
HvDetails ==
    /\ hvPc = "done"
    /\ hymnResult' = <<HymnOf(Flatten(hvInput), hymnVerses, hymnRefrain)>>
    /\ hvPc' = IF hymnResult'[1].found THEN "details" ELSE "null"
    /\ UNCHANGED <<hvInput, pTags, hymnVerses, hymnRefrain, hymnSlides>>
    /\ UNCHANGED <<oldVars, mailVars, runVars, praiseVars, dateVars>>

\* createPresentation calls createVersesSlides: createSlidesForHymn builds
\* slidesToCreate for the hymn
HvExpand ==
    /\ hvPc = "details"
    /\ hymnSlides' = DropTrailingNumeric(
                         Interleave(hymnResult[1].verses, hymnResult[1].refrain))
    /\ hvPc' = "expanded"
    /\ UNCHANGED <<hvInput, pTags, hymnVerses, hymnRefrain, hymnResult>>
    /\ UNCHANGED <<oldVars, mailVars, runVars, praiseVars, dateVars>>

NextVerses ==
    \/ \E piece \in HvParagraphs \cup {TableClose} : HvAppend(piece)
    \/ HvMatchTable
    \/ HvEach
    \/ HvReturn
    \/ HvDetails
    \/ HvExpand

SpecVerses == InitVerses /\ [][NextVerses]_vars

(***************************************************************************)
(* E-mail: searchGmailForPraiseLyrics                                      *)
(***************************************************************************)
\* most lines of a message, the title line included
MaxMailLines == 6

ReNewline == << Lit(<<"\n">>) >>

ClsBlank == In({" ", "\t"})

\* lines 866-872: the replace calls that turn markup into line breaks
HtmlSteps ==
    << [re  |-> << LitI(<<"<","/","d","i","v",">">>) \o <<Star(ClsSpace)>>
                   \o LitI(<<"<","d","i","v">>) \o <<Star(ClsNoGt)>> \o Lit(<<">">>) >>,
        rep |-> <<"\n","\n">>],
       [re  |-> << LitI(<<"<","/","p",">">>) \o <<Star(ClsSpace)>>
                   \o LitI(<<"<","p">>) \o <<Star(ClsNoGt)>> \o Lit(<<">">>) >>,
        rep |-> <<"\n","\n">>],
       [re  |-> << LitI(<<"<","b","r">>) \o <<Star(ClsSpace), Opt(In({"/"}))>>
                   \o Lit(<<">">>) \o <<Star(ClsSpace)>>
                   \o LitI(<<"<","b","r">>) \o <<Star(ClsSpace), Opt(In({"/"}))>>
                   \o Lit(<<">">>) >>,
        rep |-> <<"\n","\n">>],
       [re  |-> << LitI(<<"<","b","r">>) \o <<Star(ClsSpace), Opt(In({"/"}))>>
                   \o Lit(<<">">>) >>,
        rep |-> <<"\n">>],
       [re  |-> [k \in 1..2 |->
                    Lit(<<"<">>) \o <<Opt(In({"/"}))>>
                    \o LitI(<< <<"d","i","v">>, <<"p">> >>[k])
                    \o <<Star(ClsNoGt)>> \o Lit(<<">">>)],
        rep |-> <<"\n">>],
       [re  |-> [k \in 1..5 |->
                    Lit(<<"<">>) \o <<Opt(In({"/"}))>>
                    \o LitI(<< <<"s","t","r","o","n","g">>, <<"b">>, <<"e","m">>,
                               <<"i">>, <<"u">> >>[k])
                    \o <<Star(ClsNoGt)>> \o Lit(<<">">>)],
        rep |-> <<>>],
       [re  |-> << Lit(<<"<">>) \o <<Star(ClsNoGt)>> \o Lit(<<">">>) >>,
        rep |-> <<>>] >>

\* lines 875-881: the same seven replace calls as lines 669-675
EntitySteps == SubSeq(Replacements, 6, 12)

\* /^\*\*(.*?)\*\*$/ and /^\*(.*?)\*$/ on one line
ReBold ==
    << <<Bol>> \o Lit(<<"*","*">>) \o <<Lazy(ClsNoNewline)>> \o Lit(<<"*","*">>)
       \o <<Eol>> >>

ReItalic ==
    << <<Bol>> \o Lit(<<"*">>) \o <<Lazy(ClsNoNewline)>> \o Lit(<<"*">>) \o <<Eol>> >>

\* lines 889-893, before the trim
WhitespaceSteps ==
    << [re |-> << <<Plus(ClsBlank)>> >>,                       rep |-> <<" ">>],
       [re |-> << Lit(<<"\n">>) \o <<Plus(ClsBlank)>> >>,      rep |-> <<"\n">>],
       [re |-> << <<Plus(ClsBlank)>> \o Lit(<<"\n">>) >>,      rep |-> <<"\n">>],
       [re |-> << Lit(<<"\n","\n","\n">>) \o <<Star(In({"\n"}))>> >>,
        rep |-> <<"\n","\n">>] >>

\* the texts of s between the matches ms, the ends of s included
SplitAt(s, ms) ==
    [j \in 1..(Len(ms) + 1) |->
        SubSeq(s, IF j = 1 THEN 1 ELSE MatchEnd(ms[j - 1]),
                  IF j > Len(ms) THEN Len(s) ELSE ms[j].at[1] - 1)]

\* s.split(/re/) for an re that matches no empty text
Split(s, re) == SplitAt(s, ReMatches(re, s, 1))

\* parts.join(sep)
RECURSIVE Join(_, _)
Join(parts, sep) ==
    IF Len(parts) = 0 THEN <<>>
    ELSE IF Len(parts) = 1 THEN parts[1]
    ELSE parts[1] \o sep \o Join(Tail(parts), sep)

\* parts.map(part => part.trim()).filter(part => part !== ''), from part k on
RECURSIVE TrimmedNonEmpty(_, _)
TrimmedNonEmpty(parts, k) ==
    IF k > Len(parts) THEN <<>>
    ELSE (IF trim(parts[k]) = <<>> THEN <<>> ELSE <<trim(parts[k])>>)
         \o TrimmedNonEmpty(parts, k + 1)

\* '$1' of the match m of ReBold or ReItalic in line, line itself if none
Unwrapped(line, m) == IF m.alt = 0 THEN line ELSE Group(line, m, 3, 4)

\* replace(re, '$1') with the g and m flags: the pattern spans a whole line
\* and . takes no line break, so each line is replaced by itself
Unwrap(mdLines, re) ==
    [k \in DOMAIN mdLines |-> Unwrapped(mdLines[k], ReFirstMatch(re, mdLines[k]))]

\* lines 885-886
WithoutMarkdown(text) ==
    Join(Unwrap(Split(Join(Unwrap(Split(text, ReNewline), ReBold), <<"\n">>),
                      ReNewline), ReItalic), <<"\n">>)

\* lines 913-932: the loop over remainingLines from index i on
RECURSIVE GroupLines(_, _, _, _, _)
GroupLines(remainingLines, i, currentParagraph, emptyLinesSeen, lyricsParagraphs) ==
    IF i > Len(remainingLines)
    THEN IF Len(currentParagraph) > 0
         THEN Append(lyricsParagraphs, Join(currentParagraph, <<"\n">>))
         ELSE lyricsParagraphs
    ELSE IF trim(remainingLines[i]) = <<>>
    THEN GroupLines(remainingLines, i + 1, currentParagraph, emptyLinesSeen + 1,
                    lyricsParagraphs)
    ELSE IF emptyLinesSeen > 0 /\ Len(currentParagraph) > 0
    THEN GroupLines(remainingLines, i + 1, <<remainingLines[i]>>, 0,
                    Append(lyricsParagraphs, Join(currentParagraph, <<"\n">>)))
    ELSE GroupLines(remainingLines, i + 1,
                    Append(currentParagraph, remainingLines[i]), 0,
                    lyricsParagraphs)

\* allLines.slice(from, to), both counted from 0
Slice(allLines, from, to) == SubSeq(allLines, from + 1, Min({to, Len(allLines)}))

\* lines 946-952: newParagraphs, from i on
RECURSIVE Chunks(_, _)
Chunks(allLines, i) ==
    IF i >= Len(allLines) THEN <<>>
    ELSE (IF Len(Slice(allLines, i, i + 6)) > 0
          THEN <<Join(Slice(allLines, i, i + 6), <<"\n">>)>> ELSE <<>>)
         \o Chunks(allLines, i + 4)

\* a return statement of the function: where it is, and the entity
Returned(at, title, lyrics) == [at |-> at, title |-> title, lyrics |-> lyrics]

\* lines 935-969
Regrouped(songTitle, lyricsParagraphs) ==
    IF Len(lyricsParagraphs) = 1
    THEN Returned("chunks", songTitle,
                  Chunks(Split(lyricsParagraphs[1], ReNewline), 0))
    ELSE Returned("paragraphs", songTitle, lyricsParagraphs)

\* lines 900-969
FromLines(lines) ==
    IF Len(lines) = 0 THEN Returned("null", <<>>, <<>>)
    ELSE Regrouped(lines[1], GroupLines(Tail(lines), 1, <<>>, 0, <<>>))

\* lines 896-981 if the fallback were also entered for two sections
FromSectionsTwoNeeded(body, sections) ==
    IF Len(sections) <= 2
    THEN FromLines(TrimmedNonEmpty(Split(body, ReNewline), 1))
    ELSE Returned("sections", sections[1], Tail(sections))

\* lines 896-981
FromSections(body, sections) ==
    IF Len(sections) <= 1
    THEN FromLines(TrimmedNonEmpty(Split(body, ReNewline), 1))
    ELSE Returned("sections", sections[1], Tail(sections))

\* what stands between two lines of a message: a line break, a blank line
\* and, in a rich body, a br element
MailSeparators(html) ==
    {<<"\n">>, <<"\n","\n">>} \cup (IF html THEN {<<"<","b","r",">">>} ELSE {})

\* line k of a message (the lines of a message differ); the title line may be
\* written bold
MailLine(k, bold) ==
    IF bold THEN <<"*","*">> \o <<LowerLetters[k]>> \o <<"*","*">>
    ELSE <<LowerLetters[k]>>

InitMail ==
    /\ OldIdle /\ VersesIdle /\ RunIdle /\ PraiseIdle /\ DateIdle
    /\ mailLines = 0
    /\ mailText = <<>>
    /\ mailHtml \in BOOLEAN
    /\ mailPc = "inbox"
    /\ emailBody = <<>>
    /\ mailOut = <<>>

\* the sender writes the title line
MailTitle(bold) ==
    /\ mailPc = "inbox"
    /\ mailLines = 0
    /\ mailLines' = 1
    /\ mailText' = MailLine(1, bold)
    /\ UNCHANGED <<mailHtml, mailPc, emailBody, mailOut>>
    /\ UNCHANGED <<oldVars, versesVars, runVars, praiseVars, dateVars>>

\* the sender writes one more line
MailAppend(sep) ==
    /\ mailPc = "inbox"
    /\ mailLines >= 1
    /\ mailLines < MaxMailLines
    /\ mailLines' = mailLines + 1
    /\ mailText' = mailText \o sep \o MailLine(mailLines + 1, FALSE)
    /\ UNCHANGED <<mailHtml, mailPc, emailBody, mailOut>>
    /\ UNCHANGED <<oldVars, versesVars, runVars, praiseVars, dateVars>>

\* lines 845-862 and 986-988: no thread, or an exception, gives null;
\* otherwise the body of the first message is taken
MailSearch(outcome) ==
    /\ mailPc = "inbox"
    /\ IF outcome = "found"
       THEN /\ emailBody' = mailText
            /\ mailPc' = IF mailHtml /\ mailText # <<>> /\ trim(mailText) # <<>>
                         THEN "html" ELSE "plain"
       ELSE /\ emailBody' = <<>>
            /\ mailPc' = "null"
    /\ UNCHANGED <<mailLines, mailText, mailHtml, mailOut>>
    /\ UNCHANGED <<oldVars, versesVars, runVars, praiseVars, dateVars>>

\* lines 864-882
MailFromHtml ==
    /\ mailPc = "html"
    /\ emailBody' = ApplySteps(EntitySteps, 1, ApplySteps(HtmlSteps, 1, emailBody))
    /\ mailPc' = "plain"
    /\ UNCHANGED <<mailLines, mailText, mailHtml, mailOut>>
    /\ UNCHANGED <<oldVars, versesVars, runVars, praiseVars, dateVars>>

\* lines 885-893
MailCleanUp ==
    /\ mailPc = "plain"
    /\ emailBody' = trim(ApplySteps(WhitespaceSteps, 1, WithoutMarkdown(emailBody)))
    /\ mailPc' = "split"
    /\ UNCHANGED <<mailLines, mailText, mailHtml, mailOut>>
    /\ UNCHANGED <<oldVars, versesVars, runVars, praiseVars, dateVars>>

\* lines 896-984
MailSegment ==
    /\ mailPc = "split"
    /\ \E r \in {FromSections(emailBody,
                     TrimmedNonEmpty(Split(emailBody, ReBlankLines), 1))} :
          /\ mailPc' = r.at
          /\ mailOut' = IF r.at = "null" THEN <<>>
                        ELSE <<[title |-> r.title, lyrics |-> r.lyrics]>>
    /\ UNCHANGED <<mailLines, mailText, mailHtml, emailBody>>
    /\ UNCHANGED <<oldVars, versesVars, runVars, praiseVars, dateVars>>

NextMail ==
    \/ \E bold \in BOOLEAN : MailTitle(bold)
    \/ \E sep \in MailSeparators(mailHtml) : MailAppend(sep)
    \/ \E outcome \in {"none", "found", "throws"} : MailSearch(outcome)
    \/ MailFromHtml
    \/ MailCleanUp
    \/ MailSegment

SpecMail == InitMail /\ [][NextMail]_vars

(***************************************************************************)
(* The run: createHymnsSlides, fetchHymnDetails, fetchScriptureContent,    *)
(* createPresentation                                                      *)
(***************************************************************************)
\* most scripture references of one reading
MaxReadings == 3

OPENING == <<"{","{","o","p","e","n","i","n","g","}","}">>

CLOSING == <<"{","{","c","l","o","s","i","n","g","}","}">>

\* the markers findTemplateSlides looks for
AnchorMarkers == {OPENING, CLOSING, OPENING_LYRICS, CLOSING_LYRICS}

\* how a hymn page fetch can end: status 200 with a page, another status,
\* status 200 with no content or with a "404 Not Found" page, an exception
HymnOutcomes == {"page", "status", "empty", "404", "throws"}

\* how a scripture fetch can end: status 200 with a passage or with a page
\* that has no passage, another status, an exception
FetchOutcomes == {"passage", "unparsable", "status", "throws"}

\* how the e-mail search can end
MailOutcomes == {"no thread", "unparsable", "throws", "song"}

\* the row of the sheet: whether the hymn numbers are there, and the number
\* of references of the scripture reading
RowsOfSheet ==
    [openingHymnNumber : BOOLEAN, closingHymnNumber : BOOLEAN,
     scriptureReading : 0..MaxReadings]

InitRun ==
    /\ OldIdle /\ VersesIdle /\ MailIdle /\ PraiseIdle /\ DateIdle
    /\ runPc = "start"
    /\ hymnsData = <<>>
    /\ hymnLookups = <<>>
    /\ verseIndex = 0
    /\ fetched = <<>>
    /\ responses = <<>>
    /\ netLog = <<>>
    /\ mailOutcome = "none"
    /\ presented = <<>>
    /\ templateMarkers \in SUBSET AnchorMarkers
    /\ driveFiles = <<>>

\* lines 54-76: no spreadsheet, no sheet or an exception end the run, and so
\* does a missing hymn number
RunExtract(found, row) ==
    /\ runPc = "start"
    /\ hymnsData' = IF found THEN <<row>> ELSE <<>>
    /\ runPc' = IF found /\ row.openingHymnNumber /\ row.closingHymnNumber
                THEN "hymns" ELSE "end"
    /\ UNCHANGED <<hymnLookups, verseIndex, fetched, responses, netLog,
                   mailOutcome, presented, templateMarkers, driveFiles>>
    /\ UNCHANGED <<oldVars, versesVars, mailVars, praiseVars, dateVars>>

\* fetchHymnDetails without the tests of lines 341 and 349 and the catch
HymnDetailsAlways(opening, closing) ==
    opening \in HymnOutcomes /\ closing \in HymnOutcomes \cup {"not made"}

\* fetchHymnDetails: null unless both fetches give status 200 and a page
\* that is not empty and does not hold "404 Not Found"
HymnDetailsFound(opening, closing) == opening = "page" /\ closing = "page"

\* lines 78-82 with fetchHymnDetails (lines 328-369): after an exception of
\* the first fetch the second one is not made
RunFetchHymns(opening, closing) ==
    /\ runPc = "hymns"
    /\ (opening = "throws") = (closing = "not made")
    /\ hymnLookups' = <<opening, closing>>
    /\ runPc' = IF HymnDetailsFound(opening, closing)
                THEN (IF hymnsData[1].scriptureReading = 0 THEN "mail" ELSE "scripture")
                ELSE "end"
    /\ UNCHANGED <<hymnsData, verseIndex, fetched, responses, netLog,
                   mailOutcome, presented, templateMarkers, driveFiles>>
    /\ UNCHANGED <<oldVars, versesVars, mailVars, praiseVars, dateVars>>

Fetch(ref) == [op |-> "fetch", ref |-> ref]

Sleep(ms) == [op |-> "sleep", ms |-> ms]

\* one turn of the loop over verses if the try block of lines 587-596 were
\* not there: an exception of the fetch ends fetchScriptureContent, whose
\* caller does not go on
RunFetchVerseUncaught(result) ==
    /\ runPc = "scripture"
    /\ verseIndex < hymnsData[1].scriptureReading
    /\ verseIndex' = verseIndex + 1
    /\ fetched' = Append(fetched, result)
    /\ responses' = IF result \in {"passage", "unparsable"}
                    THEN Append(responses, [ref |-> verseIndex + 1, page |-> result])
                    ELSE responses
    /\ netLog' = netLog \o <<Fetch(verseIndex + 1)>>
                   \o (IF result = "throws" THEN <<>> ELSE <<Sleep(1000)>>)
    /\ runPc' = IF result = "throws" THEN "end" ELSE "scripture"
    /\ UNCHANGED <<hymnsData, hymnLookups, mailOutcome, presented,
                   templateMarkers, driveFiles>>
    /\ UNCHANGED <<oldVars, versesVars, mailVars, praiseVars, dateVars>>

\* lines 585-597: one turn of the loop over verses; an exception of the fetch
\* skips the rest of the try block
RunFetchVerse(result) ==
    /\ runPc = "scripture"
    /\ verseIndex < hymnsData[1].scriptureReading
    /\ verseIndex' = verseIndex + 1
    /\ fetched' = Append(fetched, result)
    /\ responses' = IF result \in {"passage", "unparsable"}
                    THEN Append(responses, [ref |-> verseIndex + 1, page |-> result])
                    ELSE responses
    /\ netLog' = netLog \o <<Fetch(verseIndex + 1)>>
                   \o (IF result = "throws" THEN <<>> ELSE <<Sleep(1000)>>)
    /\ runPc' = "scripture"
    /\ UNCHANGED <<hymnsData, hymnLookups, mailOutcome, presented,
                   templateMarkers, driveFiles>>
    /\ UNCHANGED <<oldVars, versesVars, mailVars, praiseVars, dateVars>>

\* the loop is over
RunFetched ==
    /\ runPc = "scripture"
    /\ verseIndex = hymnsData[1].scriptureReading
    /\ runPc' = "mail"
    /\ UNCHANGED <<hymnsData, hymnLookups, verseIndex, fetched, responses,
                   netLog, mailOutcome, presented, templateMarkers, driveFiles>>
    /\ UNCHANGED <<oldVars, versesVars, mailVars, praiseVars, dateVars>>

\* reference k of the scripture reading
Reference(k) == <<"J", DigitChars[k + 1]>>

\* the cell of the sheet that holds n references: separated by commas, with
\* blanks around some of them
ReadingCell(n) ==
    Join([k \in 1..n |-> IF k = 2 THEN <<" ">> \o Reference(k)
                         ELSE IF k = 3 THEN <<" ">> \o Reference(k) \o <<" ">>
                         ELSE Reference(k)],
         <<",">>)

ReComma == << Lit(<<",">>) >>

\* line 582: scriptureReading.split(',').map(v => v.trim())
VersesOf(scriptureReading) ==
    LET parts == Split(scriptureReading, ReComma)
    IN [k \in DOMAIN parts |-> trim(parts[k])]

\* extractScriptureText(response.getContentText()): the passage of the page
\* of reference k, '' for a page without one
ScriptureText(response) ==
    IF response.page = "passage" THEN <<LowerLetters[response.ref], " ", "x">>
    ELSE <<>>

\* Passages without the filter of line 604
PassagesUnfiltered(rs) == [k \in DOMAIN rs |-> ScriptureText(rs[k])]

\* lines 599-604: the texts of the responses, without the empty ones
Passages(rs) ==
    SelectSeq([k \in DOMAIN rs |-> ScriptureText(rs[k])],
              LAMBDA text : text # <<>> /\ trim(text) # <<>>)

\* what fetchScriptureContent returns (lines 577 and 606-609)
ScriptureContent(scriptureReading, rs) ==
    IF scriptureReading = <<>> THEN [passage |-> <<>>, verse |-> <<>>]
    ELSE [passage |-> Join(Passages(rs), <<" ">>),
          verse |-> Join(VersesOf(scriptureReading), <<",", " ">>)]

\* line 87: searchGmailForPraiseLyrics gives null unless a song is found
PraiseData(result) == IF result = "song" THEN <<"song">> ELSE <<>>

\* line 87, then the call of line 89
RunSearchMail(result) ==
    /\ runPc = "mail"
    /\ mailOutcome' = result
    /\ \E content \in {ScriptureContent(ReadingCell(hymnsData[1].scriptureReading),
                                        responses)} :
          presented' = Append(presented,
                              [passage |-> content.passage,
                               verse |-> content.verse,
                               praiseData |-> PraiseData(result)])
    /\ runPc' = "present"
    /\ UNCHANGED <<hymnsData, hymnLookups, verseIndex, fetched, responses,
                   netLog, templateMarkers, driveFiles>>
    /\ UNCHANGED <<oldVars, versesVars, mailVars, praiseVars, dateVars>>

\* findTemplateSlides (lines 384-400) on the slides of the copy
FoundTemplates(markers) ==
    [title         |-> OPENING \in markers,
     openingLyrics |-> OPENING_LYRICS \in markers,
     closingLyrics |-> CLOSING_LYRICS \in markers,
     openingTitle  |-> OPENING \in markers,
     closingTitle  |-> CLOSING \in markers]

areAllTemplateSlidesFound(templates) ==
    /\ templates.title
    /\ templates.openingLyrics
    /\ templates.closingLyrics
    /\ templates.openingTitle
    /\ templates.closingTitle

\* createPresentation (lines 100-147): the copy is made first (lines
\* 104-108), then the template slides are looked for; without them the
\* function returns, with them the copy is filled and saved.  An exception
\* of makeCopy is caught at line 143.
RunCreatePresentation(copied) ==
    /\ runPc = "present"
    /\ driveFiles' =
         IF ~copied THEN driveFiles
         ELSE IF areAllTemplateSlidesFound(FoundTemplates(templateMarkers))
         THEN Append(driveFiles, "filled")
         ELSE Append(driveFiles, "copy")
    /\ runPc' = "end"
    /\ UNCHANGED <<hymnsData, hymnLookups, verseIndex, fetched, responses,
                   netLog, mailOutcome, presented, templateMarkers>>
    /\ UNCHANGED <<oldVars, versesVars, mailVars, praiseVars, dateVars>>

NextRun ==
    \/ \E found \in BOOLEAN, row \in RowsOfSheet : RunExtract(found, row)
    \/ \E opening \in HymnOutcomes, closing \in HymnOutcomes \cup {"not made"} :
           RunFetchHymns(opening, closing)
    \/ \E result \in FetchOutcomes : RunFetchVerse(result)
    \/ RunFetched
    \/ \E result \in MailOutcomes : RunSearchMail(result)
    \/ \E copied \in BOOLEAN : RunCreatePresentation(copied)

SpecRun == InitRun /\ [][NextRun]_vars

(***************************************************************************)
(* Praise song slides: updatePraiseSongSlides, three revisions             *)
(***************************************************************************)
\* most lyric paragraphs of a song
MaxParagraphs == 4

PRAISE_SONG == <<"{","{","p","r","a","i","s","e","_","s","o","n","g","}","}">>

PRAISE_LYRICS == <<"{","{","p","r","a","i","s","e","_","l","y","r","i","c","s","}","}">>

\* the revisions: src/unnamed/part_000 lines 995-1095, src/main.js lines
\* 1054-1175 and src/main.js lines 2181-2295
Revisions == {"part_000", "main.js:1054", "main.js:2181"}

\* lyric paragraph k of a song (the paragraphs of a song differ), as the
\* e-mail gives it, and a paragraph of blanks
Paragraph(k) == <<LowerLetters[k], " ">>

BlankParagraph == <<" ">>

LyricLists ==
    {[k \in 1..n |-> IF k \in blank THEN BlankParagraph ELSE Paragraph(k)] :
        n \in 0..MaxParagraphs, blank \in SUBSET (1..MaxParagraphs)}

\* a slide with one text shape
Slide(id, text, font) == [id |-> id, text |-> text, font |-> font]

InitPraise ==
    /\ OldIdle /\ VersesIdle /\ MailIdle /\ RunIdle /\ DateIdle
    /\ praiseRev = "none"
    /\ praisePc = "call"
    /\ praiseInput \in {<<>>} \cup {<<[title |-> <<"s">>, lyrics |-> l]>> : l \in LyricLists}
    /\ deck \in {<<Slide(1, PRAISE_SONG, 0), Slide(2, PRAISE_LYRICS, 0),
                   Slide(3, <<"e">>, 0)>>,
                 <<Slide(1, PRAISE_SONG, 0), Slide(3, <<"e">>, 0)>>}
    /\ templateSlide = 0
    /\ created = <<>>
    /\ praiseI = 0

\* position in ss of the slide id
IndexOf(ss, id) == CHOOSE i \in DOMAIN ss : ss[i].id = id

\* id of the first slide of ss whose text includes marker, 0 if there is none
FirstWith(ss, marker) ==
    IF \E i \in DOMAIN ss : Includes(ss[i].text, marker)
    THEN ss[Min({i \in DOMAIN ss : Includes(ss[i].text, marker)})].id
    ELSE 0

\* textRange.setText(text) and adjustFontSizeToFitShape(shape, text) on the
\* slide, if its text includes probe
WithText(slide, probe, text) ==
    IF Includes(slide.text, probe)
    THEN Slide(slide.id, text, AutofitSize(text, LyricsHeight))
    ELSE slide

\* adjustFontSizeToFitShape(shape, text) on the shape of the slide: the
\* cleaned text is set as the whole text of the shape, then the font size
Autofitted(slide, text) ==
    Slide(slide.id, CleanText(text), AutofitSize(text, LyricsHeight))

\* textRange.replaceAllText(marker, text) and adjustFontSizeToFitShape(shape,
\* text) on the slide, if its text includes marker
Replaced(slide, marker, text) ==
    IF Includes(slide.text, marker)
    THEN Autofitted(Slide(slide.id, ReplaceAll(<<Lit(marker)>>, slide.text, text),
                          slide.font),
                    text)
    ELSE slide

\* the title replacement on every slide (no font is set)
WithTitle(ss, title) ==
    [i \in DOMAIN ss |->
        Slide(ss[i].id,
              IF Includes(ss[i].text, PRAISE_SONG)
              THEN ReplaceAll(<<Lit(PRAISE_SONG)>>, ss[i].text, title)
              ELSE ss[i].text,
              ss[i].font)]

IsValidParagraph(para) == para # <<>> /\ trim(para) # <<>>

\* praiseData.lyrics.filter(para => para && para.trim() !== '')
ValidParagraphs(lyrics) == SelectSeq(lyrics, IsValidParagraph)

\* ss with the slide id duplicated: the copy, with the next free id, stands
\* immediately after it
WithDuplicate(ss, id) ==
    Duplicate(ss, IndexOf(ss, id),
              Slide(Len(ss) + 2, ss[IndexOf(ss, id)].text, ss[IndexOf(ss, id)].font))

\* id of the copy WithDuplicate makes
CopyId(ss) == Len(ss) + 2

\* ss with the slide id changed to slide
WithSlide(ss, slide) == [ss EXCEPT ![IndexOf(ss, slide.id)] = slide]

\* the first part of all revisions: null praiseData returns; the title is
\* put in; the slide with the lyrics marker is looked for
PraiseCall(rev) ==
    /\ praisePc = "call"
    /\ praiseRev' = rev
    /\ IF praiseInput = <<>>
       THEN /\ praisePc' = "done"
            /\ UNCHANGED <<deck, templateSlide>>
       ELSE /\ deck' = WithTitle(deck, praiseInput[1].title)
            /\ templateSlide' = FirstWith(deck', PRAISE_LYRICS)
            /\ praisePc' = IF templateSlide' # 0 THEN "found"
                           ELSE IF rev = "main.js:1054" THEN "fallback"
                           ELSE "done"
    /\ UNCHANGED <<praiseInput, created, praiseI>>
    /\ UNCHANGED <<oldVars, versesVars, mailVars, runVars, dateVars>>

\* the paragraphs the loops of a revision run over
LoopParagraphs(rev, lyrics) ==
    IF rev = "main.js:2181" THEN lyrics ELSE ValidParagraphs(lyrics)

\* between the search and the duplicating loop.  part_000 lines 1047-1055:
\* no valid paragraph returns.  main.js lines 1137-1152: the same, then the
\* template slide takes the first paragraph.  main.js line 2244:
\* createdSlides starts with the template slide.
PraiseBegin ==
    /\ praisePc = "found"
    /\ IF praiseRev # "main.js:2181" /\ ValidParagraphs(praiseInput[1].lyrics) = <<>>
       THEN /\ praisePc' = "done"
            /\ UNCHANGED <<deck, created, praiseI>>
       ELSE /\ praisePc' = "duplicate"
            /\ praiseI' = 1
            /\ created' = IF praiseRev = "main.js:2181" THEN <<templateSlide>> ELSE <<>>
            /\ deck' = IF praiseRev = "main.js:1054"
                       THEN WithSlide(deck,
                                Replaced(deck[IndexOf(deck, templateSlide)], PRAISE_LYRICS,
                                         trim(ValidParagraphs(praiseInput[1].lyrics)[1])))
                       ELSE deck
    /\ UNCHANGED <<praiseRev, praiseInput, templateSlide>>
    /\ UNCHANGED <<oldVars, versesVars, mailVars, runVars, dateVars>>

\* one turn of the duplicating loop (part_000 lines 1060-1063, main.js lines
\* 2247-2251, main.js lines 1154-1168, where the copy takes paragraph i at
\* once)
PraiseDuplicate ==
    /\ praisePc = "duplicate"
    /\ praiseI < Len(LoopParagraphs(praiseRev, praiseInput[1].lyrics))
    /\ deck' =
         IF praiseRev = "main.js:1054"
         THEN WithSlide(WithDuplicate(deck, templateSlide),
                  WithText(Slide(CopyId(deck), deck[IndexOf(deck, templateSlide)].text,
                                 deck[IndexOf(deck, templateSlide)].font),
                           trim(ValidParagraphs(praiseInput[1].lyrics)[1]),
                           trim(ValidParagraphs(praiseInput[1].lyrics)[praiseI + 1])))
         ELSE WithDuplicate(deck, templateSlide)
    /\ created' = IF praiseRev = "main.js:1054" THEN created
                  ELSE Append(created, CopyId(deck))
    /\ praiseI' = praiseI + 1
    /\ UNCHANGED <<praiseRev, praisePc, praiseInput, templateSlide>>
    /\ UNCHANGED <<oldVars, versesVars, mailVars, runVars, dateVars>>

\* part_000 lines 1066-1069 without the reverse
AllSlidesUnreversed(template, duplicatedSlides) == <<template>> \o duplicatedSlides

\* part_000 lines 1066-1069: duplicatedSlides.reverse() and
\* allSlides = [templateSlide, ...duplicatedSlides]
AllSlides(template, duplicatedSlides) == <<template>> \o Reverse(duplicatedSlides)

\* the duplicating loop is over
PraiseDuplicated ==
    /\ praisePc = "duplicate"
    /\ praiseI >= Len(LoopParagraphs(praiseRev, praiseInput[1].lyrics))
    /\ praisePc' = IF praiseRev = "main.js:1054" THEN "done" ELSE "fill"
    /\ created' = IF praiseRev = "part_000" THEN AllSlides(templateSlide, created)
                  ELSE created
    /\ praiseI' = 0
    /\ UNCHANGED <<praiseRev, praiseInput, deck, templateSlide>>
    /\ UNCHANGED <<oldVars, versesVars, mailVars, runVars, dateVars>>

\* one turn of the filling loop (part_000 lines 1072-1091; main.js lines
\* 2254-2284, which passes over a blank paragraph)
PraiseFill ==
    /\ praisePc = "fill"
    /\ praiseI < Len(LoopParagraphs(praiseRev, praiseInput[1].lyrics))
    /\ \E paragraph \in {LoopParagraphs(praiseRev, praiseInput[1].lyrics)[praiseI + 1]} :
         deck' = IF praiseRev = "main.js:2181" /\ trim(paragraph) = <<>>
                 THEN deck
                 ELSE WithSlide(deck,
                          Replaced(deck[IndexOf(deck, created[praiseI + 1])],
                                   PRAISE_LYRICS, trim(paragraph)))
    /\ praiseI' = praiseI + 1
    /\ UNCHANGED <<praiseRev, praisePc, praiseInput, templateSlide, created>>
    /\ UNCHANGED <<oldVars, versesVars, mailVars, runVars, dateVars>>

\* the filling loop is over
PraiseFilled ==
    /\ praisePc = "fill"
    /\ praiseI >= Len(LoopParagraphs(praiseRev, praiseInput[1].lyrics))
    /\ praisePc' = "done"
    /\ UNCHANGED <<praiseRev, praiseInput, deck, templateSlide, created, praiseI>>
    /\ UNCHANGED <<oldVars, versesVars, mailVars, runVars, dateVars>>

\* main.js lines 1107-1122: the copies of the slide id for the paragraphs
\* j+1, ... of lyrics (j counted from 0)
RECURSIVE FallbackCopies(_, _, _, _)
FallbackCopies(ss, id, lyrics, j) ==
    IF j >= Len(lyrics) THEN ss
    ELSE FallbackCopies(
             WithSlide(WithDuplicate(ss, id),
                 WithText(Slide(CopyId(ss), ss[IndexOf(ss, id)].text,
                                ss[IndexOf(ss, id)].font),
                          lyrics[1], lyrics[j + 1])),
             id, lyrics, j + 1)

\* main.js lines 1095-1135: without a slide holding the lyrics marker, the
\* first slide that holds the title takes the first paragraph and is
\* duplicated for the others
PraiseFallback ==
    /\ praisePc = "fallback"
    /\ \E id \in {FirstWith(deck, praiseInput[1].title)} :
         /\ templateSlide' = id
         /\ deck' = IF id = 0 \/ praiseInput[1].lyrics = <<>>
                       \/ praiseInput[1].lyrics[1] = <<>>
                    THEN deck
                    ELSE FallbackCopies(
                             WithSlide(deck, Slide(id, praiseInput[1].lyrics[1],
                                 AutofitSize(praiseInput[1].lyrics[1], LyricsHeight))),
                             id, praiseInput[1].lyrics, 1)
    /\ praisePc' = "done"
    /\ UNCHANGED <<praiseRev, praiseInput, created, praiseI>>
    /\ UNCHANGED <<oldVars, versesVars, mailVars, runVars, dateVars>>

NextPraise ==
    \/ \E rev \in Revisions : PraiseCall(rev)
    \/ PraiseBegin
    \/ PraiseDuplicate
    \/ PraiseDuplicated
    \/ PraiseFill
    \/ PraiseFilled
    \/ PraiseFallback

SpecPraise == InitPraise /\ [][NextPraise]_vars

(***************************************************************************)
(* Date of the service: getUpcomingSaturday                                *)
(***************************************************************************)
\* the year of the current day
FirstYear == 2026

\* the days of the months of a common year
DaysInMonth == <<31, 28, 31, 30, 31, 30, 31, 31, 30, 31, 30, 31>>

\* a date of the local calendar
Dates ==
    { [year |-> FirstYear, month |-> m, date |-> d] :
        m \in 1..12, d \in 1..31 }

IsDate(dt) == dt.date <= DaysInMonth[dt.month]

\* days from the first of January of FirstYear to the first of month m of
\* year y
RECURSIVE DaysBefore(_, _)
DaysBefore(y, m) ==
    IF m > 1 THEN DaysInMonth[m - 1] + DaysBefore(y, m - 1)
    ELSE IF y > FirstYear THEN 365 + DaysBefore(y - 1, 1)
    ELSE 0

DayNumber(dt) == DaysBefore(dt.year, dt.month) + dt.date - 1

\* Date.prototype.getDay(): 0 is Sunday; the first of January of the first
\* year is taken to be a Thursday
getDay(dt) == (4 + DayNumber(dt)) % 7

\* Date.prototype.setDate(d) for d >= 1: a day past the end of the month
\* runs on into the following months
RECURSIVE setDate(_, _)
setDate(dt, d) ==
    IF d <= DaysInMonth[dt.month] THEN [dt EXCEPT !.date = d]
    ELSE setDate([year |-> IF dt.month = 12 THEN dt.year + 1 ELSE dt.year,
                  month |-> IF dt.month = 12 THEN 1 ELSE dt.month + 1,
                  date |-> 1],
                 d - DaysInMonth[dt.month])

\* (6 - today.getDay()) % 7
daysUntilSaturday(dt) == (6 - getDay(dt)) % 7

\* DaysToAdd without the test for 0: on a Saturday the day itself
DaysToAddSameDay(dt) == daysUntilSaturday(dt)

\* daysUntilSaturday === 0 ? 7 : daysUntilSaturday
DaysToAdd(dt) ==
    IF daysUntilSaturday(dt) = 0 THEN 7 ELSE daysUntilSaturday(dt)

\* the script is run on some day of the year
InitDate ==
    /\ FitIdle /\ ExpIdle /\ DecIdle /\ ScrIdle
    /\ VersesIdle /\ MailIdle /\ RunIdle /\ PraiseIdle
    /\ today \in { dt \in Dates : IsDate(dt) }
    /\ datePc = "call"
    /\ upcomingSaturday = <<>>

\* getUpcomingSaturday()
GetUpcomingSaturday ==
    /\ datePc = "call"
    /\ upcomingSaturday' = setDate(today, today.date + DaysToAdd(today))
    /\ datePc' = "returned"
    /\ UNCHANGED today
    /\ UNCHANGED <<oldVars, versesVars, mailVars, runVars, praiseVars>>

NextDate == GetUpcomingSaturday

SpecDate == InitDate /\ [][NextDate]_vars

(***************************************************************************)
(* Properties of the hymn expansion (specification Spec)                   *)
(***************************************************************************)
\* the slides made from the lyrics template of hymn h, in presentation order
LyricSlides(h) == SelectSeq(slides, LAMBDA sl : sl.kind = "lyrics" /\ sl.hymn = h)

\* the slides that show lyrics of hymn h: the template slide and its copies
LyricsOf(h) ==
    SelectSeq(slides, LAMBDA sl : sl.kind \in {"lyrics", "template"} /\ sl.hymn = h)

\* createVersesSlides has returned
VersesDone == pc \in {"removeOpening", "removeClosing", "save", "saved"}

\* createSlidesForHymn has built (and trimmed) the list of hymn h
Interleaved(h) ==
    \/ pc = h /\ stage # "interleave"
    \/ pc # h /\ (h = "opening" \/ pc # "opening")

Dropped(h) == Interleaved(h) /\ ~(pc = h /\ stage = "drop")

\* C1: when createVersesSlides has finished, the duplicates of each lyrics
\* template stand directly after the template, in the order of the block
\* list: block numbers increase with the distance from the template, and when
\* no platform call threw they are blocks 1..N with the blocks' texts
C1_DuplicatesInBlockOrder ==
    VersesDone =>
        \A h \in Range(HymnTypes) :
            LET L == LyricSlides(h)
                t == TemplateIndex(h)
            IN /\ \A i, j \in DOMAIN L : i < j => L[i].block < L[j].block
               /\ t # 0 => \A k \in DOMAIN L : slides[t + k] = L[k]
               /\ failures = 0 =>
                     /\ Len(L) = Len(blocks[h])
                     /\ \A k \in DOMAIN L :
                           /\ L[k].block = k
                           /\ L[k].text = blocks[h][k].text

C1_Witness ==
    /\ pc = "removeOpening"
    /\ failures = 0
    /\ Len(blocks["opening"]) = 3
    /\ Len(LyricSlides("opening")) = 3
    /\ LyricSlides("opening")[1].text # LyricSlides("opening")[3].text

\* C2: when no platform call threw, the saved presentation holds, for each
\* hymn, exactly one lyrics slide per block left after interleaving and the
\* trailing drop, slide k carrying the text of block k (N = 0 included)
C2_OneSlidePerBlock ==
    (pc \in {"save", "saved"} /\ failures = 0) =>
        \A h \in Range(HymnTypes) :
            /\ Len(LyricsOf(h)) = Len(blocks[h])
            /\ \A k \in DOMAIN blocks[h] :
                  /\ LyricsOf(h)[k].kind = "lyrics"
                  /\ LyricsOf(h)[k].text = blocks[h][k].text

C2_Witness ==
    /\ pc = "saved"
    /\ failures = 0
    /\ Len(LyricsOf("opening")) = 3
    /\ hymnDetails["closing"].verses # <<>>
    /\ Len(LyricsOf("closing")) = 0

\* C3 as stated: for N >= 1 blocks N-1 duplicate operations are performed and
\* the anchor slide holds the last block's text
C3_AnchorHoldsLastBlock ==
    pc = "removeOpening" =>
        \A h \in Range(HymnTypes) :
            Len(blocks[h]) >= 1 =>
                /\ dupCalls[h] = Len(blocks[h]) - 1
                /\ slides[TemplateIndex(h)].text = blocks[h][Len(blocks[h])].text

\* C3 amended: the anchor is duplicated once for every block, the last block
\* included (N duplicate operations for N blocks), the anchor slide keeps its
\* marker text, and createPresentation removes it afterwards
C3_AnchorDuplicatedForEveryBlock ==
    /\ VersesDone =>
          \A h \in Range(HymnTypes) :
              /\ dupCalls[h] = Len(blocks[h])
              /\ TemplateIndex(h) # 0 =>
                    slides[TemplateIndex(h)].text = LyricsMarker(h)
    /\ pc \in {"save", "saved"} =>
          \A h \in Range(HymnTypes) : TemplateIndex(h) = 0

C3_Witness ==
    /\ pc = "removeOpening"
    /\ Len(blocks["opening"]) = 3
    /\ dupCalls["opening"] = 3
    /\ failures = 0
    /\ LyricSlides("opening")[3].text = blocks["opening"][3].text

\* the refrain of the inputs with the word Refrain in brackets
BracketedRefrain ==
    <<"r","e","f","r","a","i","n"," ","[","R","e","f","r","a","i","n","]">>

\* C4: for verses v1..vV (V >= 1) and a refrain, the list built by
\* createSlidesForHymn is v1, R', v2, R', ..., vV with V-1 refrain copies,
\* R' the refrain with Refrain written [Refrain]; without a refrain it is the
\* verses in order
C4_RefrainInterleaving ==
    \A h \in Range(HymnTypes) :
        Interleaved(h) =>
            LET verses == hymnDetails[h].verses
                list == interleaved[h]
                V == Len(verses)
            IN IF hymnDetails[h].refrain = <<>>
               THEN list = [i \in 1..V |-> [type |-> "verse", text |-> verses[i]]]
               ELSE V >= 1 =>
                      /\ Len(list) = 2 * V - 1
                      /\ \A i \in 1..V :
                            list[2 * i - 1] = [type |-> "verse", text |-> verses[i]]
                      /\ \A i \in 1..(V - 1) :
                            list[2 * i] = [type |-> "refrain", text |-> BracketedRefrain]
                      /\ Cardinality({k \in DOMAIN list : list[k].type = "refrain"})
                            = V - 1

C4_Witness ==
    /\ pc = "opening" /\ stage = "drop"
    /\ Len(hymnDetails["opening"].verses) = 2
    /\ Len(interleaved["opening"]) = 3
    /\ interleaved["opening"][2].text = BracketedRefrain

\* a text that, trimmed, is one or more digits and nothing else
OnlyDigits(text) ==
    LET inner == SelectSeq(text, LAMBDA c : c \notin WhiteSpace)
    IN /\ inner # <<>>
       /\ \A i \in DOMAIN text :
             /\ text[i] \in WhiteSpace =>
                   (\A j \in 1..i : text[j] \in WhiteSpace)
                   \/ (\A j \in i..Len(text) : text[j] \in WhiteSpace)
             /\ text[i] \notin WhiteSpace => text[i] \in Range(DigitChars)

\* the input of the example: verses ["verse one", "2"], no refrain
VerseOneThenNumber(h) ==
    /\ hymnDetails[h].refrain = <<>>
    /\ hymnDetails[h].verses = <<VerseText("words", 1), VerseText("digits", 2)>>

\* C5: after interleaving the last block is removed iff its trimmed text is
\* digits only; no other block is removed, at most one is removed; verses
\* ["verse one", "2"] give exactly one slide, holding "verse one"
C5_TrailingNumericDrop ==
    \A h \in Range(HymnTypes) :
        /\ Dropped(h) =>
              LET list == interleaved[h]
                  n == Len(list)
              IN IF n > 0 /\ OnlyDigits(list[n].text)
                 THEN blocks[h] = SubSeq(list, 1, n - 1)
                 ELSE blocks[h] = list
        /\ (pc = "saved" /\ failures = 0 /\ VerseOneThenNumber(h)) =>
              /\ Len(LyricsOf(h)) = 1
              /\ LyricsOf(h)[1].text = VerseText("words", 1)

C5_Witness ==
    /\ pc = "saved" /\ failures = 0
    /\ VerseOneThenNumber("opening")
    /\ Len(interleaved["opening"]) = 2
    /\ Len(LyricsOf("opening")) = 1
    /\ hymnDetails["closing"].verses = <<VerseText("digits", 1), VerseText("words", 2)>>
    /\ Len(LyricsOf("closing")) >= 2

(***************************************************************************)
(* Properties of the autofit (specification SpecFit)                       *)
(***************************************************************************)
FontSizes == MIN_FONT_SIZE..DEFAULT_FONT_SIZE

\* estimated height of the shape's text at size sz does not exceed the shape
Fits(sz) == sz * LINE_SPACING * NumLines(shapeText) <= shapeHeight

\* C6: the font size adjustFontSizeToFitShape sets is an integer between
\* MIN_FONT_SIZE and DEFAULT_FONT_SIZE, for every text and every shape height
C6_FontSizeWithinBounds ==
    fitPc = "done" => shapeFont \in FontSizes

C6_Witness ==
    /\ fitPc = "done"
    /\ shapeHeight = 0
    /\ shapeFont = MIN_FONT_SIZE
    /\ NumLines(shapeText) = 2

\* C7: the size set is the largest size in 50..60 whose estimated height
\* (size x LINE_SPACING x lines of the cleaned text) does not exceed the shape
\* height, and the minimum when no size in the range fits
C7_LargestFittingSize ==
    fitPc = "done" =>
        IF \E sz \in FontSizes : Fits(sz)
        THEN /\ Fits(shapeFont)
             /\ \A sz \in FontSizes : Fits(sz) => sz <= shapeFont
        ELSE shapeFont = MIN_FONT_SIZE

C7_Witness ==
    /\ fitPc = "done"
    /\ NumLines(shapeText) = 2
    /\ shapeFont > MIN_FONT_SIZE
    /\ shapeFont < DEFAULT_FONT_SIZE
    /\ ~Fits(shapeFont + 1)

ReAnyRef ==
    << Lit(<<"&">>)
       \o <<Opt(In({"#"})), Plus(In(ClsAlpha.set \cup ClsDigit.set))>>
       \o Lit(<<";">>) >>

\* the reference that starts at position p of s is a decimal or hexadecimal
\* reference or one of the six named references
ValidRefAt(s, p) ==
    \/ ReMatchAt(ReDecimalRef, s, p).alt # 0
    \/ ReMatchAt(ReHexRef, s, p).alt # 0
    \/ LET m == ReMatchAt(ReNamedRef, s, p)
       IN m.alt # 0 /\ Group(s, m, 2, 3) \in DOMAIN entities

\* every reference of s is a valid one
OnlyValidRefs(s) ==
    \A p \in DOMAIN s : ReMatchAt(ReAnyRef, s, p).alt # 0 => ValidRefAt(s, p)

\* every & of s starts a valid reference
EveryAmpStartsValidRef(s) ==
    \A p \in DOMAIN s : s[p] = "&" => ValidRefAt(s, p)

\* the valid reference at position p of s stands for the character &
RefOfAmpAt(s, p) ==
    LET d == ReMatchAt(ReDecimalRef, s, p)
        h == ReMatchAt(ReHexRef, s, p)
        n == ReMatchAt(ReNamedRef, s, p)
    IN \/ d.alt # 0 /\ fromCharCode(ParseNumber(Group(s, d, 2, 3), 10)) = "&"
       \/ h.alt # 0 /\ fromCharCode(ParseNumber(Group(s, h, 2, 3), 16)) = "&"
       \/ n.alt # 0 /\ Group(s, n, 2, 3) = <<"a","m","p">>

NoRefOfAmp(s) == \A p \in DOMAIN s : ~RefOfAmpAt(s, p)

\* C9 as stated: decoding twice equals decoding once for every text whose
\* references are all valid (a decoded literal & is not decoded again)
C9_DecodeIdempotent ==
    (Len(decOut) = 2 /\ OnlyValidRefs(DecText)) => decOut[2] = decOut[1]

\* C9 amended: decoding twice equals decoding once for every text in which
\* every & starts a valid reference and no reference stands for & itself
C9_DecodeIdempotentWithoutAmp ==
    (Len(decOut) = 2 /\ EveryAmpStartsValidRef(DecText) /\ NoRefOfAmp(DecText))
        => decOut[2] = decOut[1]

C9_Witness ==
    /\ Len(decOut) = 2
    /\ Len(decInput) = 3
    /\ EveryAmpStartsValidRef(DecText) /\ NoRefOfAmp(DecText)
    /\ \E p \in DOMAIN DecText : ReMatchAt(ReDecimalRef, DecText, p).alt # 0
    /\ \E p \in DOMAIN DecText : ReMatchAt(ReNamedRef, DecText, p).alt # 0
    /\ decOut[1] # DecText
    /\ decOut[2] = decOut[1]

(***************************************************************************)
(* Properties of the scripture extractor                                   *)
(***************************************************************************)
\* position after the first occurrence of sub in s at or after pos, 0 if none
EndOfFirst(s, sub, pos) ==
    LET found == {i \in pos..(Len(s) - Len(sub) + 1) :
                     SubSeq(s, i, i + Len(sub) - 1) = sub}
    IN IF found = {} THEN 0 ELSE Min(found) + Len(sub)

\* the texts parts[j], parts[j+1], ... occur in s from pos on, one after the
\* other and in this order
RECURSIVE OccurInOrder(_, _, _, _)
OccurInOrder(s, parts, j, pos) ==
    IF j > Len(parts) THEN TRUE
    ELSE LET next == EndOfFirst(s, parts[j], pos)
         IN next # 0 /\ OccurInOrder(s, parts, j + 1, next)

\* some positional token is left in s
TokenLeft(s) == \E i \in 0..MaxScrPieces : Includes(s, VerseToken(i))

\* C10 as stated: when k verse-number markers were found, the output holds
\* the k recorded verse numbers, each followed by a space, in the order in
\* which the markers were found, and no positional token is left in it
C10_VerseNumbersRestored ==
    scrOut # <<>> =>
        /\ OccurInOrder(scrOut[1].text,
                        [j \in DOMAIN scrOut[1].verseNumbers |->
                            scrOut[1].verseNumbers[j] \o <<" ">>], 1, 1)
        /\ ~TokenLeft(scrOut[1].text)

(***************************************************************************)
(* Properties of extractHymnVerses                                         *)
(***************************************************************************)
\* the text a reader of the page sees in a paragraph element, cleaned: line
\* breaks as newlines, links left out, runs of blanks as one blank
ReadText ==
    (PWords        :> <<"a","\n","w">>)
 @@ (PSpaced       :> <<"b"," ","w","\n","c">>)
 @@ (PRefrain      :> <<"R","e","f","r","a","i","n","\n","w">>)
 @@ (PRefrainUpper :> <<"R","E","F","R","A","I","N"," ","w">>)
 @@ (PAnchor       :> <<"w"," ","&"," ","w">>)
 @@ (PBreakOnly    :> <<>>)
 @@ (PBlank        :> <<>>)

\* the paragraph elements whose text contains the word refrain
RefrainParagraphs == {PRefrain, PRefrainUpper}

\* the index of the first </table> piece of the page, 0 if there is none
FirstClose ==
    IF \E i \in DOMAIN hvInput : hvInput[i] = TableClose
    THEN Min({i \in DOMAIN hvInput : hvInput[i] = TableClose})
    ELSE 0

\* the paragraph elements of the first table, in document order
TableParagraphs ==
    IF FirstClose > 0 /\ \E i \in 1..FirstClose : hvInput[i] = TableOpen
    THEN SubSeq(hvInput,
                (CHOOSE i \in 1..FirstClose : hvInput[i] = TableOpen) + 1,
                FirstClose - 1)
    ELSE <<>>

IsVerseParagraph(p) == ReadText[p] # <<>> /\ p \notin RefrainParagraphs

ExpectedVerses ==
    LET ps == SelectSeq(TableParagraphs, IsVerseParagraph)
    IN [i \in DOMAIN ps |-> ReadText[ps[i]]]

MailReturnedEntity == mailPc \in {"sections", "paragraphs", "chunks"}

\* C12: an entity returned by searchGmailForPraiseLyrics has a non-empty
\* lyrics list
C12_ReturnedLyricsNonEmpty ==
    MailReturnedEntity => Len(mailOut[1].lyrics) > 0

\* the lines of a lyric paragraph
LinesOf(paragraph) == Split(paragraph, ReNewline)

RECURSIVE AllLinesOf(_)
AllLinesOf(paragraphs) ==
    IF paragraphs = <<>> THEN <<>>
    ELSE LinesOf(Head(paragraphs)) \o AllLinesOf(Tail(paragraphs))

\* the lines of the message after its title line
RemainingLines == [k \in 1..(mailLines - 1) |-> <<LowerLetters[k + 1]>>]

\* C18: when the regrouping stage has split the single paragraph of the
\* remaining lines, the groups in order hold exactly these lines, each once,
\* and all groups but the last have the same number of lines
C18_GroupsPartitionLines ==
    mailPc = "chunks" =>
        /\ AllLinesOf(mailOut[1].lyrics) = RemainingLines
        /\ \A g \in 1..(Len(mailOut[1].lyrics) - 1) :
              Len(LinesOf(mailOut[1].lyrics[g])) = Len(LinesOf(mailOut[1].lyrics[1]))

(***************************************************************************)
(* Properties of the run                                                   *)
(***************************************************************************)
HymnNumberMissing ==
    /\ hymnsData # <<>>
    /\ ~(hymnsData[1].openingHymnNumber /\ hymnsData[1].closingHymnNumber)

HymnLookupFailed ==
    /\ hymnLookups # <<>>
    /\ \E k \in 1..2 : hymnLookups[k] # "page"

\* C13: when a hymn number is missing or a hymn lookup has not given a page
\* (other status, empty content, a "404 Not Found" page, an exception),
\* createPresentation is never called and no document is left
C13_NoPresentationWithoutHymns ==
    HymnNumberMissing \/ HymnLookupFailed =>
        presented = <<>> /\ driveFiles = <<>>

C13_Witness ==
    /\ runPc = "end"
    /\ HymnLookupFailed
    /\ presented = <<>>

AnchorMissing == templateMarkers # AnchorMarkers

\* C14: when an anchor marker is absent from the template, the run leaves no
\* document behind
C14_NoDocumentWithoutAnchors ==
    runPc = "end" /\ AnchorMissing => driveFiles = <<>>

HymnsFound ==
    /\ hymnsData # <<>>
    /\ hymnsData[1].openingHymnNumber /\ hymnsData[1].closingHymnNumber
    /\ hymnLookups = <<"page", "page">>

\* C15: when both hymn numbers are there and both lookups gave a page, the
\* run ends only after createPresentation was called, whatever the scripture
\* fetches and the e-mail search gave; no passage fetched means an empty
\* passage, and no song means null praise data
C15_OptionalSourcesNeverAbort ==
    HymnsFound /\ runPc \in {"present", "end"} =>
        /\ Len(presented) = 1
        /\ (\A k \in DOMAIN fetched : fetched[k] # "passage")
               => presented[1].passage = <<>>
        /\ mailOutcome # "song" => presented[1].praiseData = <<>>

C15_Witness ==
    /\ runPc = "end"
    /\ HymnsFound
    /\ Len(fetched) = MaxReadings
    /\ \A k \in DOMAIN fetched : fetched[k] \in {"throws", "status", "unparsable"}
    /\ \E k \in DOMAIN fetched : fetched[k] = "throws"
    /\ mailOutcome = "throws"
    /\ Len(presented) = 1

\* C20: the scripture fetches are made in reference order, and between two
\* consecutive fetches a sleep of 1000 ms is made
C20_DelayBetweenFetches ==
    \A i, j \in DOMAIN netLog :
        (i < j /\ netLog[i].op = "fetch" /\ netLog[j].op = "fetch") =>
            /\ netLog[i].ref < netLog[j].ref
            /\ \E k \in (i + 1)..(j - 1) : netLog[k] = Sleep(1000)

(***************************************************************************)
(* Properties of updatePraiseSongSlides                                    *)
(***************************************************************************)
IsLyricParagraph(para) == para # BlankParagraph

\* the non-empty lyric paragraphs of the song, as they are to be shown
ShownParagraphs ==
    LET ps == SelectSeq(praiseInput[1].lyrics, IsLyricParagraph)
    IN [k \in DOMAIN ps |-> <<ps[k][1]>>]

\* updatePraiseSongSlides has ended after finding the lyrics template slide,
\* for a song with at least one non-empty paragraph
PraiseShown ==
    /\ praisePc = "done"
    /\ praiseInput # <<>>
    /\ \E i \in DOMAIN deck : deck[i].id = 2
    /\ Len(ShownParagraphs) >= 1

\* the texts of the slides from the template slide on, as many as there are
\* non-empty paragraphs
ShownTexts ==
    [k \in 1..Min({Len(ShownParagraphs), Len(deck) + 1 - IndexOf(deck, 2)}) |->
        deck[IndexOf(deck, 2) + k - 1].text]

\* C16: for N >= 1 non-empty paragraphs the part_000 revision makes N - 1
\* duplicates, the template slide takes paragraph 1, and the N slides from
\* the template slide on hold the paragraphs in paragraph order
C16_PraiseSlidesInParagraphOrder ==
    PraiseShown /\ praiseRev = "part_000" =>
        /\ Len(deck) = 3 + Len(ShownParagraphs) - 1
        /\ deck[IndexOf(deck, 2)].text = ShownParagraphs[1]
        /\ ShownTexts = ShownParagraphs

C16_Witness ==
    /\ PraiseShown /\ praiseRev = "part_000"
    /\ Len(ShownParagraphs) = MaxParagraphs
    /\ ShownTexts = ShownParagraphs

\* C17: in both main.js revisions, for a song of N >= 1 non-empty paragraphs
\* the slides from the template slide on hold the paragraphs in paragraph
\* order
C17_MainRevisionsInParagraphOrder ==
    (/\ PraiseShown /\ praiseRev \in {"main.js:1054", "main.js:2181"}
     /\ Len(ShownParagraphs) = Len(praiseInput[1].lyrics))
        => ShownTexts = ShownParagraphs

(***************************************************************************)
(* Properties of the passage container scan of extractScriptureText        *)
(***************************************************************************)
\* the index of the piece of ps, from k on, that closes the container when
\* open divs are open before piece k; 0 if there is none
RECURSIVE ClosingPiece(_, _, _)
ClosingPiece(ps, k, open) ==
    IF k > Len(ps) THEN 0
    ELSE IF ps[k] = DIV_OPEN \o <<">">> THEN ClosingPiece(ps, k + 1, open + 1)
    ELSE IF ps[k] = DIV_CLOSE
    THEN (IF open = 1 THEN k ELSE ClosingPiece(ps, k + 1, open - 1))
    ELSE ClosingPiece(ps, k + 1, open)

\* the scan for the end of the container is done, on a page whose container
\* is closed
ContainerScanned ==
    /\ scrPc = "protect"
    /\ scrInput # <<>> /\ scrInput[1] = ContainerOpen
    /\ ClosingPiece(scrInput, 2, 1) > 0

\* C19: after the scan, textContent is exactly the text between the opening
\* tag of the container and the </div> that closes it; nothing that follows
\* this tag is kept, whatever the container holds
C19_OnlyContainerTextKept ==
    ContainerScanned =>
        textContent = Flatten(SubSeq(scrInput, 2, ClosingPiece(scrInput, 2, 1) - 1))

(***************************************************************************)
(* Properties of the fallback chain of searchGmailForPraiseLyrics          *)
(***************************************************************************)
\* the message as its reader sees it, from character i on: the bold marks
\* are not shown and, in a rich body, a br element is a line break
RECURSIVE ReaderText(_, _)
ReaderText(text, i) ==
    IF i > Len(text) THEN <<>>
    ELSE IF text[i] = "*" THEN ReaderText(text, i + 1)
    ELSE IF mailHtml /\ HasAt(text, i - 1, <<"<","b","r",">">>)
    THEN <<"\n">> \o ReaderText(text, i + 4)
    ELSE <<text[i]>> \o ReaderText(text, i + 1)

\* the parts of text between its blank lines, from character i on, after
\* the characters of current
RECURSIVE BlankLineParts(_, _, _)
BlankLineParts(text, i, current) ==
    IF i > Len(text) THEN <<current>>
    ELSE IF text[i] = "\n" /\ i < Len(text) /\ text[i + 1] = "\n"
    THEN <<current>> \o BlankLineParts(text, i + 2, <<>>)
    ELSE BlankLineParts(text, i + 1, Append(current, text[i]))

\* the non-empty sections of the message
MailSections == BlankLineParts(ReaderText(mailText, 1), 1, <<>>)

\* C22: the regrouping fallback is entered exactly when the message has at
\* most one non-empty section; with k >= 2 sections the result is the first
\* section as title and sections 2..k, in order, as lyrics
C22_FallbackOnlyWithoutSections ==
    /\ mailPc = "sections" =>
          /\ Len(MailSections) >= 2
          /\ mailOut[1].title = MailSections[1]
          /\ mailOut[1].lyrics = Tail(MailSections)
    /\ mailPc \in {"paragraphs", "chunks"} => Len(MailSections) <= 1

C22_Witness ==
    /\ mailPc = "sections"
    /\ mailHtml
    /\ Len(MailSections) = 3
    /\ \E k \in DOMAIN mailText : mailText[k] = "<"
    /\ mailOut[1].lyrics = Tail(MailSections)

(***************************************************************************)
(* Properties of the named references of decodeHtmlEntities                *)
(***************************************************************************)
\* the names decodeHtmlEntities is meant to recognize
RecognizedNames ==
    { <<"a","m","p">>, <<"l","t">>, <<"g","t">>, <<"q","u","o","t">>,
      <<"a","p","o","s">>, <<"n","b","s","p">> }

\* text[i..j] is "&name;" for a name of letters that is not recognized
IsUnrecognizedRef(text, i, j) ==
    /\ i + 1 < j
    /\ text[i] = "&"
    /\ text[j] = ";"
    /\ \A k \in (i + 1)..(j - 1) :
          text[k] \in Range(LowerLetters) \cup Range(UpperLetters)
    /\ SubSeq(text, i + 1, j - 1) \notin RecognizedNames

\* C23: every "&name;" of the input whose name is made of letters and is not
\* one of amp, lt, gt, quot, apos, nbsp stands verbatim in the output
C23_UnrecognizedNamesVerbatim ==
    decOut # <<>> =>
        \A i \in DOMAIN DecText : \A j \in DOMAIN DecText :
            IsUnrecognizedRef(DecText, i, j) =>
                Includes(decOut[1], SubSeq(DecText, i, j))

(***************************************************************************)
(* Properties of the end of the block list                                 *)
(***************************************************************************)
\* C27: after interleaving and the trailing-numeric drop the last block of a
\* hymn, if there is one, is a verse and never a refrain copy
C27_LastBlockIsVerse ==
    \A h \in Range(HymnTypes) :
        blocks[h] # <<>> => blocks[h][Len(blocks[h])].type = "verse"

(***************************************************************************)
(* Termination of the autofit loop                                         *)
(***************************************************************************)
\* C29: for every text and every shape height, 0 included, the decrement
\* loop of adjustFontSizeToFitShape ends, after at most
\* DEFAULT_FONT_SIZE - MIN_FONT_SIZE decrements
C29_AutofitTerminates ==
    /\ [](decrements <= DEFAULT_FONT_SIZE - MIN_FONT_SIZE)
    /\ (fitPc = "loop") ~> (fitPc = "done")

C29_Witness ==
    /\ fitPc = "done"
    /\ shapeHeight = 0
    /\ fitText # <<>>
    /\ decrements = DEFAULT_FONT_SIZE - MIN_FONT_SIZE

(***************************************************************************)
(* Failure of one block of createVersesSlides                              *)
(***************************************************************************)
\* the blocks of hymn h that a slide of the deck shows, cleaned and sized
ShownBlocks(h) ==
    { n \in DOMAIN blocks[h] :
        \E i \in DOMAIN slides :
            /\ slides[i].kind = "lyrics"
            /\ slides[i].hymn = h
            /\ slides[i].block = n
            /\ slides[i].text = CleanText(blocks[h][n].text)
            /\ slides[i].font \in FontSizes }

\* the number of blocks of hymn h that no slide shows
MissingBlocks(h) == Len(blocks[h]) - Cardinality(ShownBlocks(h))

\* C26: a block whose copy has no text shape, or whose platform call throws,
\* is the only block lost: when createVersesSlides has returned, every block
\* of both hymns other than the failed ones is shown on a slide
C26_OnlyFailedBlockSkipped ==
    pc \in {"removeOpening", "removeClosing", "save", "saved"} =>
        MissingBlocks("opening") + MissingBlocks("closing") = failures

C26_Witness ==
    /\ pc = "saved"
    /\ failures = 1
    /\ Len(blocks["opening"]) = 3
    /\ MissingBlocks("opening") = 1
    /\ 3 \in ShownBlocks("opening")
    /\ 1 \in ShownBlocks("opening")
    /\ Len(blocks["closing"]) >= 2
    /\ MissingBlocks("closing") = 0

(***************************************************************************)
(* Marker replacement and the order of the steps of createPresentation     *)
(***************************************************************************)
\* text, from character i on, with every {{passage}} and {{verse}} marker
\* replaced by the passage and the references
RECURSIVE Substituted(_, _, _)
Substituted(text, i, content) ==
    IF i > Len(text) THEN <<>>
    ELSE IF HasAt(text, i - 1, PASSAGE)
    THEN content.passage \o Substituted(text, i + Len(PASSAGE), content)
    ELSE IF HasAt(text, i - 1, VERSE)
    THEN content.verse \o Substituted(text, i + Len(VERSE), content)
    ELSE <<text[i]>> \o Substituted(text, i + 1, content)

\* C21: updateScriptureSlides replaces the markers literally: afterwards the
\* text of every shape is its previous text with {{passage}} and {{verse}}
\* replaced, everything else in the shape unchanged
C21_MarkerReplacementIsLiteral ==
    [][pc = "updateScripture" =>
         \A i \in DOMAIN slides :
             slides'[i].text = Substituted(slides[i].text, 1, scriptureContent)]_vars

\* the names in completed before its k-th entry
CompletedBefore(k) == { completed[n] : n \in 1..(k - 1) }

MarkerUpdates ==
    {"updateScriptureSlides", "updateSermonSlides", "updateParticipantsSlides"}

Removals == {"openingLyrics.remove", "closingLyrics.remove"}

\* C28: a lyrics template slide is removed only after createVersesSlides and
\* every marker update have returned, saveAndClose is called only after both
\* removals, and the saved presentation holds no lyrics template slide
C28_RemovalsLastThenSave ==
    /\ \A k \in DOMAIN completed :
          /\ completed[k] \in Removals =>
                {"createVersesSlides"} \cup MarkerUpdates \subseteq CompletedBefore(k)
          /\ completed[k] \in MarkerUpdates \cup
                 {"createVersesSlides", "updatePraiseSongSlides"} =>
                CompletedBefore(k) \cap (Removals \cup {"saveAndClose"}) = {}
          /\ completed[k] = "saveAndClose" => Removals \subseteq CompletedBefore(k)
    /\ (TemplateIndex("opening") = 0 \/ TemplateIndex("closing") = 0) =>
          Removals \cap Range(completed) # {}
    /\ pc = "saved" =>
          /\ "saveAndClose" \in Range(completed)
          /\ \A i \in DOMAIN slides : slides[i].kind # "template"

C28_Witness ==
    /\ pc = "saved"
    /\ "updatePraiseSongSlides" \in Range(completed)
    /\ Len(blocks["opening"]) = 3
    /\ \E i \in DOMAIN slides : slides[i].kind = "program" /\ slides[i].text = <<"g", "o">>
    /\ \A i \in DOMAIN slides : slides[i].kind # "template"

(***************************************************************************)
(* A hymn page without a table                                             *)
(***************************************************************************)
\* the page has a table element: the opening tag and, after it, the closing
\* tag
HasTableElement ==
    \E i \in DOMAIN hvInput : \E j \in DOMAIN hvInput :
        i < j /\ hvInput[i] = TableOpen /\ hvInput[j] = TableClose

\* the page passes the checks fetchHymnDetails makes before parsing it
PageAccepted == hvInput # <<>> /\ hvInput[1] # NOT_FOUND

\* the title a reader finds on the page
HeadingOrFallback ==
    IF hvInput # <<>> /\ hvInput[1] = H1Title
    THEN <<"A", " ", "&", " ", "b">>
    ELSE UNTITLED_HYMN

\* C25: for an accepted page without a table element extractHymnVerses
\* returns no verses and an empty refrain, the title is the heading or
\* "Untitled Hymn", fetchHymnDetails returns a result (not null), and the
\* expansion of the hymn has no blocks
C25_NoTableIsRecovered ==
    (PageAccepted /\ ~HasTableElement) =>
        /\ hvPc \in {"done", "details", "expanded"} =>
              hymnVerses = <<>> /\ hymnRefrain = <<>>
        /\ hvPc # "null"
        /\ hvPc \in {"details", "expanded"} =>
              /\ hymnResult[1].found
              /\ hymnResult[1].title = HeadingOrFallback
              /\ hymnResult[1].verses = <<>>
              /\ hymnResult[1].refrain = <<>>
        /\ hvPc = "expanded" => hymnSlides = <<>>

C25_Witness ==
    /\ hvPc = "expanded"
    /\ hvInput[1] = H1Title
    /\ ~HasTableElement
    /\ Len(hvInput) >= 3
    /\ hymnResult[1].title = <<"A", " ", "&", " ", "b">>
    /\ hymnSlides = <<>>

(***************************************************************************)
(* What fetchScriptureContent returns                                      *)
(***************************************************************************)
\* the texts of the references from k on whose fetch gave a page with a
\* passage, each after one blank unless it is the first
RECURSIVE SpacedTexts(_, _)
SpacedTexts(k, first) ==
    IF k > Len(fetched) THEN <<>>
    ELSE IF fetched[k] = "passage"
    THEN (IF first THEN <<>> ELSE <<" ">>) \o <<LowerLetters[k], " ", "x">>
         \o SpacedTexts(k + 1, FALSE)
    ELSE SpacedTexts(k + 1, first)

\* the references from k on, each after ", " unless it is the first
RECURSIVE ListedReferences(_)
ListedReferences(k) ==
    IF k > hymnsData[1].scriptureReading THEN <<>>
    ELSE (IF k = 1 THEN <<>> ELSE <<",", " ">>) \o <<"J", DigitChars[k + 1]>>
         \o ListedReferences(k + 1)

\* C24: the passage is the texts of the references whose fetch gave status
\* 200 and a non-empty text, in request order with one blank between them,
\* and verse is all the references joined by ", " whatever the fetches gave
C24_PassageAndVerseComposition ==
    presented # <<>> =>
        /\ presented[1].passage = SpacedTexts(1, TRUE)
        /\ presented[1].verse = ListedReferences(1)

C24_Witness ==
    /\ presented # <<>>
    /\ fetched = <<"passage", "unparsable", "passage">>
    /\ presented[1].passage = <<"a", " ", "x", " ", "c", " ", "x">>
    /\ presented[1].verse = <<"J", "1", ",", " ", "J", "2", ",", " ", "J", "3">>

(***************************************************************************)
(* Properties of getUpcomingSaturday                                       *)
(***************************************************************************)
\* C30: on each of the seven weekdays the date returned is a Saturday 1 to 7
\* days after the current day, never the current day; on a Saturday it is
\* the Saturday 7 days later
C30_NextSaturdayWithinAWeek ==
    datePc = "returned" =>
        /\ IsDate(upcomingSaturday)
        /\ getDay(upcomingSaturday) = 6
        /\ DayNumber(upcomingSaturday) - DayNumber(today) \in 1..7
        /\ getDay(today) = 6 =>
              DayNumber(upcomingSaturday) - DayNumber(today) = 7

C30_Witness ==
    /\ datePc = "returned"
    /\ getDay(today) = 6
    /\ today.month = 12
    /\ upcomingSaturday.year = FirstYear + 1
    /\ DayNumber(upcomingSaturday) - DayNumber(today) = 7

====
